---- MODULE Spec2Model ----
(***************************************************************************)
(* A state-machine model of the equipment-state tracking engine of the     *)
(* backend: SmartEquipmentPositioning (placement scoring) and              *)
(* EquipmentStatusDashboard (status records, bounded history, JSON files)  *)
(* of src/backend/advanced_equipment_analysis.py, as driven by             *)
(* src/backend/app.py.                                                     *)
(*                                                                         *)
(* Numbers: Python floats are modelled as exact rationals <<n, d>> (d > 0, *)
(* lowest terms); timestamps are whole hours on an integer clock.          *)
(***************************************************************************)
EXTENDS Integers, Sequences, FiniteSets, TLC

VARIABLES
    equipment_status,   \* EquipmentStatusDashboard.equipment_status: label -> record
    detection_history,  \* EquipmentStatusDashboard.detection_history: [d: label -> Seq(entry), dflt: is a defaultdict(list)]
    status_file,        \* data/equipment_status.json
    history_file,       \* data/detection_history.json
    now,                \* the wall clock read by datetime.now(), in hours
    lastOp,             \* outcome of the last operation
    ret,                \* value returned by the last read operation
    appended,           \* history: label -> every entry ever appended (line 319), in order
    calls,              \* history: number of update calls so far
    faults,             \* history: number of file faults injected so far
    threads,            \* per-thread position and locals of a concurrent update
    posIn,              \* argument of analyze_position
    posOut,             \* result of analyze_position
    logs,               \* data/logs.json: the list kept by log_detection
    alerts,             \* data/alerts.json: the trigger rules kept by create_alert
    batch,              \* the detections of the image being processed
    out,                \* value returned by the last call of a function over logs, alerts or batch
    analysed,           \* history: the argument and the result of an earlier call of analyze_position
    reportHistory       \* the detections_history handed to generate_crew_safety_report

storeVars == <<equipment_status, detection_history, status_file, history_file,
               now, lastOp, ret, appended, calls, faults>>
posVars == <<posIn, posOut, analysed>>
appVars == <<logs, alerts, batch, out, reportHistory>>
vars == <<equipment_status, detection_history, status_file, history_file,
          now, lastOp, ret, appended, calls, faults, threads, posIn, posOut, logs, alerts, batch, out,
          analysed, reportHistory>>

(***************************************************************************)
(* Exact rational arithmetic standing for Python float arithmetic.         *)
(***************************************************************************)
Abs(n) == IF n < 0 THEN -n ELSE n

RECURSIVE Gcd(_, _)
Gcd(a, b) == IF b = 0 THEN a ELSE Gcd(b, a % b)

R(n, d) ==
    LET g == Gcd(Abs(n), Abs(d))
        s == IF d < 0 THEN -1 ELSE 1
    IN  <<(s * n) \div g, (s * d) \div g>>

RInt(n) == <<n, 1>>
RAdd(a, b) == R(a[1] * b[2] + b[1] * a[2], a[2] * b[2])
RSub(a, b) == R(a[1] * b[2] - b[1] * a[2], a[2] * b[2])
RMul(a, b) == R(a[1] * b[1], a[2] * b[2])
RDiv(a, b) == R(a[1] * b[2], a[2] * b[1])
RLt(a, b) == a[1] * b[2] < b[1] * a[2]
RLe(a, b) == a[1] * b[2] <= b[1] * a[2]
RGt(a, b) == RLt(b, a)
RGe(a, b) == RLe(b, a)
RMin(a, b) == IF RLt(b, a) THEN b ELSE a
RMax(a, b) == IF RGt(b, a) THEN b ELSE a
RAbs(a) == <<Abs(a[1]), a[2]>>

(***************************************************************************)
(* Labels.  A label is a string; str.lower() and str.replace(' ', '_')     *)
(* work on its characters, given by LabelChars.                            *)
(***************************************************************************)
AllLabels == {"fire_extinguisher", "oxygen_tank", "first_aid_box", "nitrogen_tank", "fire_alarm", "safety_switch_panel", "emergency_phone", "Fire Extinguisher", "Oxygen Tank", "wrench",
              "fire extinguisher", "oxygen tank", "no_detection"}

LabelChars(l) ==
    CASE
        l = "fire_extinguisher" -> <<"f", "i", "r", "e", "_", "e", "x", "t", "i", "n", "g", "u", "i", "s", "h", "e", "r">>
     [] l = "oxygen_tank" -> <<"o", "x", "y", "g", "e", "n", "_", "t", "a", "n", "k">>
     [] l = "first_aid_box" -> <<"f", "i", "r", "s", "t", "_", "a", "i", "d", "_", "b", "o", "x">>
     [] l = "nitrogen_tank" -> <<"n", "i", "t", "r", "o", "g", "e", "n", "_", "t", "a", "n", "k">>
     [] l = "fire_alarm" -> <<"f", "i", "r", "e", "_", "a", "l", "a", "r", "m">>
     [] l = "safety_switch_panel" -> <<"s", "a", "f", "e", "t", "y", "_", "s", "w", "i", "t", "c", "h", "_", "p", "a", "n", "e", "l">>
     [] l = "emergency_phone" -> <<"e", "m", "e", "r", "g", "e", "n", "c", "y", "_", "p", "h", "o", "n", "e">>
     [] l = "Fire Extinguisher" -> <<"F", "i", "r", "e", " ", "E", "x", "t", "i", "n", "g", "u", "i", "s", "h", "e", "r">>
     [] l = "Oxygen Tank" -> <<"O", "x", "y", "g", "e", "n", " ", "T", "a", "n", "k">>
     [] l = "wrench" -> <<"w", "r", "e", "n", "c", "h">>
     [] l = "fire extinguisher" -> <<"f", "i", "r", "e", " ", "e", "x", "t", "i", "n", "g", "u", "i", "s", "h", "e", "r">>
     [] l = "oxygen tank" -> <<"o", "x", "y", "g", "e", "n", " ", "t", "a", "n", "k">>
     [] l = "no_detection" -> <<"n", "o", "_", "d", "e", "t", "e", "c", "t", "i", "o", "n">>

UpperCase == <<"A", "B", "C", "D", "E", "F", "G", "H", "I", "J", "K", "L", "M", "N", "O", "P", "Q", "R", "S", "T", "U", "V", "W", "X", "Y", "Z">>
LowerCase == <<"a", "b", "c", "d", "e", "f", "g", "h", "i", "j", "k", "l", "m", "n", "o", "p", "q", "r", "s", "t", "u", "v", "w", "x", "y", "z">>

lower(c) ==
    IF \E i \in 1..Len(UpperCase) : UpperCase[i] = c
    THEN LowerCase[CHOOSE i \in 1..Len(UpperCase) : UpperCase[i] = c]
    ELSE c

replace_space(c) == IF c = " " THEN "_" ELSE c

\* detection.get('label', '').lower().replace(' ', '_'), character by character
normalize_chars(l) ==
    LET cs == [i \in 1..Len(LabelChars(l)) |-> replace_space(lower(LabelChars(l)[i]))]
    IN  IF \E m \in AllLabels : LabelChars(m) = cs
        THEN CHOOSE m \in AllLabels : LabelChars(m) = cs
        ELSE "wrench"

\* The conversion of every label, worked out once.
NormalizedLabels == [l \in AllLabels |-> normalize_chars(l)]

normalize_label(l) == NormalizedLabels[l]

\* label.lower(), with no replacement of spaces (app.py, check_alerts)
lower_chars(l) ==
    LET cs == [i \in 1..Len(LabelChars(l)) |-> lower(LabelChars(l)[i])]
    IN  IF \E m \in AllLabels : LabelChars(m) = cs
        THEN CHOOSE m \in AllLabels : LabelChars(m) = cs
        ELSE "wrench"

LoweredLabels == [l \in AllLabels |-> lower_chars(l)]

lower_label(l) == LoweredLabels[l]

upper(c) ==
    IF \E i \in 1..Len(LowerCase) : LowerCase[i] = c
    THEN UpperCase[CHOOSE i \in 1..Len(LowerCase) : LowerCase[i] = c]
    ELSE c

\* label.upper(), as the sequence of its characters
upper_chars(l) == [i \in 1..Len(LabelChars(l)) |-> upper(LabelChars(l)[i])]

(***************************************************************************)
(* SmartEquipmentPositioning                                               *)
(***************************************************************************)
\* The keys of EQUIPMENT_REQUIREMENTS, in the dict's insertion order.
CatalogSeq == <<"fire_extinguisher", "oxygen_tank", "first_aid_box", "nitrogen_tank",
                "fire_alarm", "safety_switch_panel", "emergency_phone">>

Catalog == {CatalogSeq[i] : i \in 1..Len(CatalogSeq)}

Requirement(c, hgt, ang, dist) ==
    [min_clearance |-> c, max_height |-> hgt, required_access_angles |-> ang,
     critical_distance |-> dist]

EQUIPMENT_REQUIREMENTS ==
    [k \in Catalog |->
        CASE k = "fire_extinguisher"   -> Requirement(R(5, 10), R(18, 10), 270, RInt(3))
          [] k = "oxygen_tank"         -> Requirement(R(8, 10), R(15, 10), 180, RInt(5))
          [] k = "first_aid_box"       -> Requirement(R(3, 10), R(16, 10), 180, RInt(4))
          [] k = "nitrogen_tank"       -> Requirement(RInt(1), RInt(2), 180, RInt(10))
          [] k = "fire_alarm"          -> Requirement(R(2, 10), R(25, 10), 360, RInt(8))
          [] k = "safety_switch_panel" -> Requirement(R(4, 10), R(17, 10), 180, RInt(2))
          [] k = "emergency_phone"     -> Requirement(R(3, 10), R(15, 10), 180, RInt(6))]

Assessment(score) ==
    IF RGt(score, R(7, 10)) THEN "Good"
    ELSE IF RGt(score, R(4, 10)) THEN "Needs Improvement"
    ELSE "Poor"

_analyze_accessibility(center_x, center_y, size, requirements) ==
    LET edge_distance == RMin(RMin(center_x, RSub(RInt(1), center_x)),
                              RMin(center_y, RSub(RInt(1), center_y)))
        height_score == RSub(RInt(1), RAbs(RSub(center_y, R(6, 10))))
        size_score == RMin(RInt(1), RMul(size, RInt(5)))
        accessibility_score ==
            RDiv(RAdd(RAdd(edge_distance, height_score), size_score), RInt(3))
    IN  [score |-> accessibility_score,
         edge_distance |-> edge_distance,
         height_appropriateness |-> height_score,
         size_visibility |-> size_score,
         assessment |-> Assessment(accessibility_score)]

_calculate_placement_score(center_x, center_y, size, confidence, requirements) ==
    LET accessibility_weight == R(3, 10)
        visibility_weight == R(3, 10)
        confidence_weight == R(4, 10)
        accessibility == RMul(RMin(RMin(center_x, RSub(RInt(1), center_x)),
                                   RMin(center_y, RSub(RInt(1), center_y))), RInt(2))
        visibility == RMul(RMin(RInt(1), RMul(size, RInt(3))),
                           RSub(RInt(1), RAbs(RSub(center_y, R(1, 2)))))
        overall_score == RAdd(RAdd(RMul(accessibility, accessibility_weight),
                                   RMul(visibility, visibility_weight)),
                              RMul(confidence, confidence_weight))
    IN  RMin(RInt(1), overall_score)

TooHigh == "Equipment positioned too high - consider lowering for better crew access"
TooLow == "Equipment positioned too low - may be difficult to access in microgravity"
TooCloseToEdge == "Equipment too close to image edge - may indicate poor mounting location"
TooSmall == "Equipment appears small in frame - may be too far from camera or poorly positioned"
PoorAccessibility == "Overall accessibility is poor - consider repositioning equipment"
ManualVerification == "Manual verification required - detection confidence below 60%"
VisualConfirmation == "Visual confirmation recommended - detection confidence below 80%"

\* A slip in lines 203-226: the test of the distance to the edge is left out.
_generate_positioning_recommendations_without_edge(analysis) ==
    LET position == analysis.position
        accessibility == analysis.accessibility
        height ==
            IF RLt(accessibility.height_appropriateness, R(5, 10))
            THEN IF RLt(position.center_y, R(3, 10)) THEN <<TooHigh>>
                 ELSE IF RGt(position.center_y, R(8, 10)) THEN <<TooLow>>
                 ELSE <<>>
            ELSE <<>>
        small == IF RLt(position.relative_size, R(1, 100)) THEN <<TooSmall>> ELSE <<>>
        poor == IF RLt(accessibility.score, R(5, 10)) THEN <<PoorAccessibility>> ELSE <<>>
    IN  height \o small \o poor

\* lines 203-226
_generate_positioning_recommendations(analysis) ==
    LET position == analysis.position
        accessibility == analysis.accessibility
        height ==
            IF RLt(accessibility.height_appropriateness, R(5, 10))
            THEN IF RLt(position.center_y, R(3, 10)) THEN <<TooHigh>>
                 ELSE IF RGt(position.center_y, R(8, 10)) THEN <<TooLow>>
                 ELSE <<>>
            ELSE <<>>
        edge == IF RLt(accessibility.edge_distance, R(2, 10)) THEN <<TooCloseToEdge>> ELSE <<>>
        small == IF RLt(position.relative_size, R(1, 100)) THEN <<TooSmall>> ELSE <<>>
        poor == IF RLt(accessibility.score, R(5, 10)) THEN <<PoorAccessibility>> ELSE <<>>
    IN  height \o edge \o small \o poor

\* The three ways a call ends: a returned {'error': ...}, an exception that leaves
\* the function, or a returned analysis.
InvalidBBox == [outcome |-> "error", error |-> "Invalid bounding box data"]
Raised(what) == [outcome |-> "raised", exception |-> what]

\* No earlier call is kept.
NoCall == [outcome |-> "none"]

\* A slip in line 143: the list is one object shared by all calls, so a call
\* finds in it what the earlier call appended.
list_of_earlier_call ==
    IF analysed # NoCall /\ analysed.out.outcome = "ok"
    THEN analysed.out.recommendations
    ELSE <<>>

\* line 143: 'recommendations': [] makes a new list in every call
new_list == <<>>

analyze_position(detection, image_dimensions) ==
    LET bbox == detection.bbox
        confidence == detection.confidence
        equipment_type == normalize_label(detection.label)
        img_width == image_dimensions[1]
        img_height == image_dimensions[2]
    IN  IF Len(bbox) # 4 THEN InvalidBBox
        ELSE IF img_width = 0 \/ img_height = 0 THEN Raised("ZeroDivisionError")
        ELSE
        LET x == bbox[1]
            y == bbox[2]
            w == bbox[3]
            h == bbox[4]
            center_x == R(2 * x + w, 2 * img_width)
            center_y == R(2 * y + h, 2 * img_height)
            bbox_area == R(w * h, img_width * img_height)
            requirements ==
                IF equipment_type \in Catalog
                THEN EQUIPMENT_REQUIREMENTS[equipment_type]
                ELSE EQUIPMENT_REQUIREMENTS["fire_extinguisher"]
            base == [outcome |-> "ok",
                     equipment_type |-> equipment_type,
                     confidence |-> confidence,
                     position |-> [center_x |-> center_x, center_y |-> center_y,
                                   relative_size |-> bbox_area],
                     accessibility |-> _analyze_accessibility(center_x, center_y,
                                                              bbox_area, requirements),
                     placement_score |-> _calculate_placement_score(
                                             center_x, center_y, bbox_area,
                                             confidence, requirements)]
            conf_flags ==
                IF RLt(confidence, R(6, 10)) THEN <<"LOW_CONFIDENCE_DETECTION">>
                ELSE IF RLt(confidence, R(8, 10)) THEN <<"MEDIUM_CONFIDENCE_DETECTION">>
                ELSE <<>>
            conf_recs ==
                IF RLt(confidence, R(6, 10)) THEN <<ManualVerification>>
                ELSE IF RLt(confidence, R(8, 10)) THEN <<VisualConfirmation>>
                ELSE <<>>
            pos_recs ==
                IF RLt(base.placement_score, R(7, 10))
                THEN _generate_positioning_recommendations(base)
                ELSE <<>>
        IN  [outcome |-> "ok",
             equipment_type |-> base.equipment_type,
             confidence |-> base.confidence,
             position |-> base.position,
             accessibility |-> base.accessibility,
             placement_score |-> base.placement_score,
             recommendations |-> new_list \o conf_recs \o pos_recs,
             flags |-> conf_flags]

(***************************************************************************)
(* EquipmentStatusDashboard: files and JSON                                *)
(***************************************************************************)
max_history_per_equipment == 100

\* A file is absent, holds text json.load rejects, or holds a JSON object.
AbsentFile == [state |-> "absent", data |-> <<>>]
CorruptFile == [state |-> "corrupt", data |-> <<>>]

\* json.dump(obj, f): the JSON object of a dict; a defaultdict is written as the
\* plain object of its items (line 269 passes dict(self.detection_history)).
json_dump(items) == [state |-> "ok", data |-> items]

\* A dict literal {} and a defaultdict(list) differ in what d[missing_key] does.
PlainDict(items) == [d |-> items, dflt |-> FALSE]
DefaultDict(items) == [d |-> items, dflt |-> TRUE]

_load_equipment_status(file) ==
    IF file.state = "ok" THEN file.data ELSE <<>>

\* A slip in lines 262-264: the except branch hands back a plain {}.
_load_detection_history_plain_on_error(file) ==
    IF file.state = "ok" THEN PlainDict(file.data)
    ELSE IF file.state = "corrupt" THEN PlainDict(<<>>)
    ELSE DefaultDict(<<>>)

_load_detection_history(file) ==
    IF file.state = "ok" THEN PlainDict(file.data) ELSE DefaultDict(<<>>)

_save_equipment_status(es) == json_dump(es)

_save_detection_history(dh) == json_dump(dh.d)

(***************************************************************************)
(* EquipmentStatusDashboard.update_equipment_detection                     *)
(***************************************************************************)
Put(f, k, v) == [x \in (DOMAIN f) \cup {k} |-> IF x = k THEN v ELSE f[x]]

\* A slip in lines 279-286: the thresholds compared with > instead of >=.
confidence_level_of_strict(confidence) ==
    IF RGt(confidence, R(8, 10)) THEN "HIGH"
    ELSE IF RGt(confidence, R(6, 10)) THEN "MEDIUM"
    ELSE IF RGt(confidence, R(5, 10)) THEN "LOW"
    ELSE "UNCERTAIN"

\* lines 279-286
confidence_level_of(confidence) ==
    IF RGe(confidence, R(8, 10)) THEN "HIGH"
    ELSE IF RGe(confidence, R(6, 10)) THEN "MEDIUM"
    ELSE IF RGe(confidence, R(5, 10)) THEN "LOW"
    ELSE "UNCERTAIN"

\* analysis.get('placement_score', 0.5)
placement_score_of(analysis) ==
    IF "placement_score" \in DOMAIN analysis THEN analysis.placement_score ELSE R(1, 2)

\* A slip in lines 291-296: every tier below HIGH is sent to review.
status_of_most_lenient(confidence_level, placement_score) ==
    IF confidence_level = "HIGH" /\ RGt(placement_score, R(7, 10)) THEN "AVAILABLE"
    ELSE IF confidence_level \in {"MEDIUM", "LOW", "UNCERTAIN"}
            \/ RLe(placement_score, R(7, 10))
         THEN "NEEDS_REVIEW"
    ELSE "CRITICAL"

\* lines 291-296
status_of(confidence_level, placement_score) ==
    IF confidence_level = "HIGH" /\ RGt(placement_score, R(7, 10)) THEN "AVAILABLE"
    ELSE IF confidence_level \in {"MEDIUM", "LOW"} \/ RLe(placement_score, R(7, 10))
         THEN "NEEDS_REVIEW"
    ELSE "CRITICAL"

\* self.equipment_status.get(equipment_type, {}).get('detection_count', 0)
detection_count_of(es, equipment_type) ==
    IF equipment_type \in DOMAIN es THEN es[equipment_type].detection_count ELSE 0

\* lines 299-308
status_record(es, equipment_type, detection_data, image_path, analysis, timestamp) ==
    [status |-> status_of(confidence_level_of(detection_data.confidence),
                          placement_score_of(analysis)),
     confidence_level |-> confidence_level_of(detection_data.confidence),
     confidence |-> detection_data.confidence,
     last_seen |-> timestamp,
     last_image |-> image_path,
     placement_score |-> placement_score_of(analysis),
     analysis |-> analysis,
     detection_count |-> detection_count_of(es, equipment_type) + 1]

\* lines 311-317
history_entry(detection_data, image_path, analysis, timestamp) ==
    [timestamp |-> timestamp,
     confidence |-> detection_data.confidence,
     bbox |-> detection_data.bbox,
     image_path |-> image_path,
     analysis |-> analysis]

\* A slip in the slice of line 323: h[:max] keeps the oldest entries.
limit_history_keeps_oldest(h) ==
    IF Len(h) > max_history_per_equipment
    THEN SubSeq(h, 1, max_history_per_equipment)
    ELSE h

\* lines 322-323: h[-max_history_per_equipment:] when h is longer than the maximum
limit_history(h) ==
    IF Len(h) > max_history_per_equipment
    THEN SubSeq(h, Len(h) - max_history_per_equipment + 1, Len(h))
    ELSE h

\* self.detection_history[equipment_type] on line 319: a defaultdict makes the
\* missing list, a plain dict raises KeyError.
has_history_list(dh, equipment_type) == equipment_type \in DOMAIN dh.d \/ dh.dflt

EntriesOf(lists, equipment_type) ==
    IF equipment_type \in DOMAIN lists THEN lists[equipment_type] ELSE <<>>

history_list(dh, equipment_type) == EntriesOf(dh.d, equipment_type)

\* The in-memory effect of one call, lines 275-323: the record is stored before
\* the history is touched, so a KeyError on line 319 leaves the new record behind.
update_memory(es, dh, equipment_type, detection_data, image_path, analysis, timestamp) ==
    LET es2 == Put(es, equipment_type,
                   status_record(es, equipment_type, detection_data, image_path,
                                 analysis, timestamp))
        entry == history_entry(detection_data, image_path, analysis, timestamp)
    IN  IF ~has_history_list(dh, equipment_type)
        THEN [es |-> es2, dh |-> dh, raised |-> TRUE]
        ELSE [es |-> es2,
              dh |-> [d |-> Put(dh.d, equipment_type,
                                limit_history(Append(history_list(dh, equipment_type), entry))),
                      dflt |-> dh.dflt],
              raised |-> FALSE]

\* open(path, 'w') truncates the file before anything is written; a write that
\* fails after that leaves a proper prefix of a JSON object, which does not parse.
\* io names where the two saves of lines 326-327 fail, if they do.
IoOutcomes == {"ok", "status_open_fails", "status_write_fails",
               "history_open_fails", "history_write_fails"}

status_file_after(io, old, es) ==
    CASE io = "status_open_fails"  -> old
      [] io = "status_write_fails" -> CorruptFile
      [] OTHER                     -> _save_equipment_status(es)

\* A slip in lines 326-327: the history is never written.
history_file_never_saved(io, old, dh) == old

history_file_after(io, old, dh) ==
    CASE io \in {"status_open_fails", "status_write_fails", "history_open_fails"} -> old
      [] io = "history_write_fails" -> CorruptFile
      [] OTHER                      -> _save_detection_history(dh)

NoRet == [op |-> "none"]

\* One call of update_equipment_detection, from datetime.now() to its return or
\* to the exception that leaves it.  dt is the time passed since the clock was
\* last read.
update_equipment_detection(equipment_type, detection_data, image_path, analysis, dt, io) ==
    LET timestamp == now + dt
        m == update_memory(equipment_status, detection_history, equipment_type,
                           detection_data, image_path, analysis, timestamp)
    IN  /\ now' = timestamp
        /\ calls' = calls + 1
        /\ equipment_status' = m.es
        /\ detection_history' = m.dh
        /\ ret' = NoRet
        /\ IF m.raised
           THEN /\ io = "ok"
                /\ UNCHANGED <<status_file, history_file, appended, faults>>
                /\ lastOp' = "update_KeyError"
           ELSE /\ appended' = Put(appended, equipment_type,
                                   Append(EntriesOf(appended, equipment_type),
                                          history_entry(detection_data, image_path,
                                                        analysis, timestamp)))
                /\ status_file' = status_file_after(io, status_file, m.es)
                /\ history_file' = history_file_after(io, history_file, m.dh)
                /\ faults' = IF io = "ok" THEN faults ELSE faults + 1
                /\ lastOp' = IF io = "ok" THEN "update_ok" ELSE "update_IOError"

\* EquipmentStatusDashboard.__init__ on the data directory of a previous instance.
Construct ==
    /\ equipment_status' = _load_equipment_status(status_file)
    /\ detection_history' = _load_detection_history(history_file)
    /\ lastOp' = "construct"
    /\ ret' = NoRet
    /\ UNCHANGED <<status_file, history_file, now, appended, calls, faults>>

(***************************************************************************)
(* EquipmentStatusDashboard.get_equipment_status_summary                   *)
(***************************************************************************)
\* 'Never detected' and 'N/A' stand where a timestamp and a number of hours
\* stand otherwise.
NeverDetected == -1
NotApplicable == -1
SecondsPerHour == 3600
MissingAfterSeconds == 86400

MapSeq(s, F(_)) == [i \in 1..Len(s) |-> F(s[i])]

\* A slip in line 357: the tier LOW is tested in place of confidence < 0.6.
critical_alerts_of_low_tier(es) ==
    MapSeq(SelectSeq(CatalogSeq,
                     LAMBDA k : k \in DOMAIN es /\ es[k].confidence_level = "LOW"),
           LAMBDA k : [equipment |-> k, issue |-> "Low detection confidence",
                       confidence |-> es[k].confidence, last_seen |-> es[k].last_seen])

\* lines 357-363
critical_alerts_of(es) ==
    MapSeq(SelectSeq(CatalogSeq,
                     LAMBDA k : k \in DOMAIN es /\ RLt(es[k].confidence, R(6, 10))),
           LAMBDA k : [equipment |-> k, issue |-> "Low detection confidence",
                       confidence |-> es[k].confidence, last_seen |-> es[k].last_seen])

\* A slip in line 346: the loop runs over the detected kinds, not the catalog.
missing_equipment_of_detected_only(es, t) ==
    MapSeq(SelectSeq(CatalogSeq,
                     LAMBDA k : k \in DOMAIN es
                                /\ (t - es[k].last_seen) * SecondsPerHour > MissingAfterSeconds),
           LAMBDA k : [equipment |-> k, last_seen |-> es[k].last_seen,
                       hours_ago |-> t - es[k].last_seen])

\* lines 366-372 and 384-390
missing_equipment_of(es, t) ==
    MapSeq(SelectSeq(CatalogSeq,
                     LAMBDA k : k \notin DOMAIN es
                                \/ (t - es[k].last_seen) * SecondsPerHour > MissingAfterSeconds),
           LAMBDA k : IF k \in DOMAIN es
                      THEN [equipment |-> k, last_seen |-> es[k].last_seen,
                            hours_ago |-> t - es[k].last_seen]
                      ELSE [equipment |-> k, last_seen |-> NeverDetected,
                            hours_ago |-> NotApplicable])

\* lines 351-352
high_confidence_detections_of(es) ==
    Cardinality({k \in Catalog \cap DOMAIN es : es[k].confidence_level = "HIGH"})

\* lines 353-354: the elif is reached only when the tier is not HIGH
needs_review_of(es) ==
    Cardinality({k \in Catalog \cap DOMAIN es :
                    es[k].confidence_level # "HIGH" /\ es[k].status = "NEEDS_REVIEW"})

\* lines 374-383
equipment_details_of(es) ==
    [k \in Catalog \cap DOMAIN es |->
        [status |-> es[k].status,
         confidence |-> es[k].confidence,
         confidence_level |-> es[k].confidence_level,
         placement_score |-> es[k].placement_score,
         last_seen |-> es[k].last_seen,
         detection_count |-> es[k].detection_count,
         recommendations |-> IF "recommendations" \in DOMAIN es[k].analysis
                             THEN es[k].analysis.recommendations ELSE <<>>,
         flags |-> IF "flags" \in DOMAIN es[k].analysis
                   THEN es[k].analysis.flags ELSE <<>>]]

\* lines 393-398
overall_status_of(critical_alerts, missing_equipment, needs_review) ==
    IF Len(critical_alerts) > 0 \/ Len(missing_equipment) > 2 THEN "CRITICAL"
    ELSE IF needs_review > 0 \/ Len(missing_equipment) > 0 THEN "NEEDS_ATTENTION"
    ELSE "NOMINAL"

get_equipment_status_summary(es, t) ==
    [op |-> "summary",
     overall_status |-> overall_status_of(critical_alerts_of(es),
                                          missing_equipment_of(es, t),
                                          needs_review_of(es)),
     total_equipment_types |-> Len(CatalogSeq),
     detected_equipment_types |-> Cardinality(DOMAIN es),
     high_confidence_detections |-> high_confidence_detections_of(es),
     needs_review |-> needs_review_of(es),
     missing_equipment |-> missing_equipment_of(es, t),
     critical_alerts |-> critical_alerts_of(es),
     equipment_details |-> equipment_details_of(es),
     last_updated |-> t]

(***************************************************************************)
(* EquipmentStatusDashboard.get_equipment_trends                           *)
(***************************************************************************)
\* timedelta(days=days) on the clock of whole hours
HoursPerDay == 24

RECURSIVE RSum(_)
RSum(s) == IF s = <<>> THEN RInt(0) ELSE RAdd(s[1], RSum(Tail(s)))

RECURSIVE RMaxOf(_)
RMaxOf(s) == IF Len(s) = 1 THEN s[1] ELSE RMax(s[1], RMaxOf(Tail(s)))

RECURSIVE RMinOf(_)
RMinOf(s) == IF Len(s) = 1 THEN s[1] ELSE RMin(s[1], RMinOf(Tail(s)))

\* lines 405-406
NoHistoryFound(equipment_type) ==
    [error |-> "No history found for", equipment_type |-> equipment_type]

\* lines 417-418
NoRecentHistory(equipment_type) ==
    [error |-> "No recent history for", equipment_type |-> equipment_type]

\* A slip in line 414: the entries before the cutoff are kept.
recent_history_of_unfiltered(history, days, t) == history

\* lines 409-415
recent_history_of(history, days, t) ==
    SelectSeq(history, LAMBDA entry : entry.timestamp >= t - days * HoursPerDay)

\* A slip in line 429: the first entry is compared with the last.
confidence_trend_of_reversed(confidences) ==
    IF RGt(confidences[1], confidences[Len(confidences)]) THEN "improving" ELSE "declining"

\* line 429
confidence_trend_of(confidences) ==
    IF RGt(confidences[Len(confidences)], confidences[1]) THEN "improving" ELSE "declining"

\* line 435
consistency_score_of(confidences) ==
    RSub(RInt(1), RSub(RMaxOf(confidences), RMinOf(confidences)))

\* A slip in lines 405-408: the list is fetched by subscript before the key is
\* tested, and a defaultdict makes the missing list.
detection_history_after_subscript(dh, equipment_type) ==
    IF equipment_type \notin DOMAIN dh.d /\ dh.dflt
    THEN [d |-> Put(dh.d, equipment_type, <<>>), dflt |-> dh.dflt]
    ELSE dh

\* lines 405-408: `in` makes no key, and the subscript is reached only for a
\* key that is there; nothing else touches self.detection_history.
detection_history_after_trends(dh, equipment_type) == dh

get_equipment_trends(dh, equipment_type, days, t) ==
    IF equipment_type \notin DOMAIN dh.d
    THEN NoHistoryFound(equipment_type)
    ELSE LET recent_history == recent_history_of(dh.d[equipment_type], days, t)
             confidences == MapSeq(recent_history, LAMBDA entry : entry.confidence)
             placement_scores == MapSeq(recent_history,
                                        LAMBDA entry : placement_score_of(entry.analysis))
         IN  IF recent_history = <<>>
             THEN NoRecentHistory(equipment_type)
             ELSE [equipment_type |-> equipment_type,
                   period_days |-> days,
                   total_detections |-> Len(recent_history),
                   average_confidence |-> RDiv(RSum(confidences), RInt(Len(confidences))),
                   confidence_trend |-> confidence_trend_of(confidences),
                   average_placement_score |->
                       RDiv(RSum(placement_scores), RInt(Len(placement_scores))),
                   high_confidence_detections |->
                       Len(SelectSeq(confidences, LAMBDA c : RGe(c, R(8, 10)))),
                   low_confidence_detections |->
                       Len(SelectSeq(confidences, LAMBDA c : RLt(c, R(6, 10)))),
                   detection_frequency |-> R(Len(recent_history), days),
                   latest_detection |-> recent_history[Len(recent_history)].timestamp,
                   consistency_score |-> consistency_score_of(confidences)]

(***************************************************************************)
(* space_station_features.py: the criticality catalog and its assessments  *)
(***************************************************************************)
\* The keys of EQUIPMENT_CONFIG, in the dict's insertion order.
ConfigSeq == <<"fire_extinguisher", "oxygen_tank", "nitrogen_tank", "first_aid_box",
               "fire_alarm", "safety_switch_panel", "emergency_phone">>

ConfigKinds == {ConfigSeq[i] : i \in 1..Len(ConfigSeq)}

Config(criticality, seconds, quantity, emergency_type, description) ==
    [criticality |-> criticality, max_response_time |-> seconds,
     required_quantity |-> quantity, emergency_type |-> emergency_type,
     description |-> description]

\* Priority and EmergencyType members are written by their values.
EQUIPMENT_CONFIG ==
    [k \in ConfigKinds |->
        CASE k = "fire_extinguisher" ->
                Config("CRITICAL", 30, 3, "fire", "CO2/Halon fire suppression system")
          [] k = "oxygen_tank" ->
                Config("CRITICAL", 10, 2, "oxygen_critical", "Life support oxygen supply")
          [] k = "nitrogen_tank" ->
                Config("HIGH", 60, 1, "nitrogen_leak", "Pressurization and fire suppression")
          [] k = "first_aid_box" ->
                Config("HIGH", 120, 2, "medical_emergency", "Medical emergency supplies")
          [] k = "fire_alarm" ->
                Config("CRITICAL", 5, 4, "fire", "Fire detection and alert system")
          [] k = "safety_switch_panel" ->
                Config("CRITICAL", 15, 2, "safety_system_failure",
                       "Emergency shutdown controls")
          [] k = "emergency_phone" ->
                Config("HIGH", 45, 3, "communication_failure",
                       "Ground communication system")]

StandardProcedures ==
    <<"1. SECURE area immediately",
      "2. CONTACT ground control",
      "3. FOLLOW standard emergency procedures">>

\* CrewSafetyProtocol.generate_emergency_checklist
generate_emergency_checklist(emergency_type) ==
    CASE emergency_type = "fire" ->
            <<"1. ACTIVATE fire alarm system",
              "2. LOCATE nearest CO2 fire extinguisher",
              "3. NOTIFY ground control immediately",
              "4. EVACUATE affected module if necessary",
              "5. ISOLATE oxygen supply to affected area",
              "6. MONITOR atmospheric conditions">>
      [] emergency_type = "oxygen_critical" ->
            <<"1. CHECK oxygen tank status immediately",
              "2. ACTIVATE backup oxygen supply",
              "3. NOTIFY ground control - PRIORITY 1",
              "4. LOCATE emergency oxygen masks",
              "5. PREPARE for potential evacuation",
              "6. MONITOR crew vital signs">>
      [] emergency_type = "medical_emergency" ->
            <<"1. SECURE medical supplies immediately",
              "2. ASSESS crew member condition",
              "3. CONTACT medical officer on ground",
              "4. PREPARE medical equipment",
              "5. DOCUMENT all vital signs",
              "6. STANDBY for medical guidance">>
      [] emergency_type = "nitrogen_leak" ->
            <<"1. ISOLATE nitrogen supply lines",
              "2. CHECK for system pressure drops",
              "3. ACTIVATE atmospheric monitoring",
              "4. NOTIFY ground control",
              "5. PREPARE backup pressurization",
              "6. MONITOR for fire suppression impact">>
      [] emergency_type = "safety_system_failure" ->
            <<"1. ACTIVATE manual safety controls",
              "2. VERIFY backup systems operational",
              "3. IMMEDIATE ground control contact",
              "4. ISOLATE affected systems",
              "5. PREPARE emergency shutdown",
              "6. DOCUMENT system status">>
      [] OTHER -> StandardProcedures

\* line 176: the set of normalized labels of the detections
detected_equipment_of(detections) ==
    {normalize_label(detections[i].label) : i \in 1..Len(detections)}

\* A slip in line 176: the labels are taken as they come.
is_missing_raw_labels(equipment, detections) ==
    equipment \notin {detections[i].label : i \in 1..Len(detections)}

\* line 179
is_missing(equipment, detections) ==
    equipment \notin detected_equipment_of(detections)

\* lines 200-206
assessment_recommendations(critical_items, missing_equipment, low_confidence_detections) ==
    (IF critical_items # <<>>
     THEN <<"IMMEDIATE: Locate and verify critical safety equipment">> ELSE <<>>)
    \o (IF missing_equipment # <<>>
        THEN <<"PRIORITY: Conduct equipment inventory check">> ELSE <<>>)
    \o (IF low_confidence_detections # <<>>
        THEN <<"ACTION: Visual confirmation required for flagged items">> ELSE <<>>)

\* detection_data is the dict with the key 'detections'.
assess_detection_criticality(detection_data) ==
    LET detections == detection_data.detections
        missing == SelectSeq(ConfigSeq, LAMBDA equipment : is_missing(equipment, detections))
        missing_equipment ==
            MapSeq(missing,
                   LAMBDA equipment :
                       [equipment |-> equipment,
                        criticality |-> EQUIPMENT_CONFIG[equipment].criticality,
                        description |-> EQUIPMENT_CONFIG[equipment].description,
                        emergency_type |-> EQUIPMENT_CONFIG[equipment].emergency_type])
        critical_items ==
            SelectSeq(missing,
                      LAMBDA equipment : EQUIPMENT_CONFIG[equipment].criticality = "CRITICAL")
        low_confidence_detections ==
            MapSeq(SelectSeq(detections, LAMBDA d : RLt(d.confidence, R(7, 10))),
                   LAMBDA d : [equipment |-> d.label, confidence |-> d.confidence,
                               status |-> "REQUIRES_VISUAL_CONFIRMATION"])
    IN  [overall_status |-> IF critical_items # <<>> THEN "CRITICAL" ELSE "NOMINAL",
         critical_items |-> critical_items,
         missing_equipment |-> missing_equipment,
         low_confidence_detections |-> low_confidence_detections,
         recommendations |-> assessment_recommendations(critical_items, missing_equipment,
                                                        low_confidence_detections)]

\* lines 217-223
EmergencyResponseActivation ==
    [priority |-> "IMMEDIATE",
     action |-> "EMERGENCY_RESPONSE_ACTIVATION",
     description |-> "Critical safety equipment not detected - activate emergency protocols",
     max_response_time |-> "30 seconds",
     crew_action_required |-> TRUE]

\* "LOCATE_", character by character
LocatePrefix == <<"L", "O", "C", "A", "T", "E", "_">>

\* A slip in line 230: every entry is given the priority of the activation entry.
protocol_for_immediate(missing_item) ==
    [priority |-> "IMMEDIATE",
     action |-> LocatePrefix \o upper_chars(missing_item.equipment),
     description |-> <<"Locate and verify ",
                       EQUIPMENT_CONFIG[missing_item.equipment].description>>,
     max_response_time |-> <<EQUIPMENT_CONFIG[missing_item.equipment].max_response_time,
                             " seconds">>,
     emergency_checklist |-> generate_emergency_checklist(missing_item.emergency_type)]

\* lines 229-237; an f-string is the sequence of its pieces
protocol_for(missing_item) ==
    LET equipment == missing_item.equipment
        config == EQUIPMENT_CONFIG[equipment]
    IN  [priority |-> missing_item.criticality,
         action |-> LocatePrefix \o upper_chars(equipment),
         description |-> <<"Locate and verify ", config.description>>,
         max_response_time |-> <<config.max_response_time, " seconds">>,
         emergency_checklist |-> generate_emergency_checklist(missing_item.emergency_type)]

generate_response_protocol(detection_data) ==
    LET assessment == assess_detection_criticality(detection_data)
    IN  (IF assessment.overall_status = "CRITICAL"
         THEN <<EmergencyResponseActivation>> ELSE <<>>)
        \o MapSeq(assessment.missing_equipment, protocol_for)

\* MissionLog.create_mission_entry; mission_time, timestamp_utc and log_id are
\* three formats of one reading of the clock, kept here as timestamp_utc.
create_mission_entry(detection_data, crew_member, station_module, t) ==
    [timestamp_utc |-> t,
     station_module |-> station_module,
     crew_member |-> crew_member,
     system |-> "AI_VISION_EMERGENCY_DETECTION",
     event_type |-> "EQUIPMENT_DETECTION",
     detection_data |-> detection_data,
     criticality_assessment |-> assess_detection_criticality(detection_data),
     required_actions |-> generate_response_protocol(detection_data)]

\* The report looks at the last 50 entries of the history.
ReportWindow == 50

\* s[-n:]
last_entries(s, n) == IF Len(s) > n THEN SubSeq(s, Len(s) - n + 1, Len(s)) ELSE s

\* lines 291-295
recent_detections_of(equipment, detections_history) ==
    SelectSeq(last_entries(detections_history, ReportWindow),
              LAMBDA d : \E i \in 1..Len(d.detections) :
                            normalize_label(d.detections[i].label) = equipment)

\* line 297
detection_rate_of(equipment, detections_history) ==
    IF detections_history # <<>>
    THEN R(Len(recent_detections_of(equipment, detections_history)),
           IF Len(detections_history) < ReportWindow
           THEN Len(detections_history) ELSE ReportWindow)
    ELSE RInt(0)

\* A slip in line 304: the thresholds compared with >= instead of >.
availability_of_inclusive(detection_rate) ==
    IF RGe(detection_rate, R(8, 10)) THEN "AVAILABLE"
    ELSE IF RGe(detection_rate, R(5, 10)) THEN "CONCERNING"
    ELSE "CRITICAL"

\* line 304
availability_of(detection_rate) ==
    IF RGt(detection_rate, R(8, 10)) THEN "AVAILABLE"
    ELSE IF RGt(detection_rate, R(5, 10)) THEN "CONCERNING"
    ELSE "CRITICAL"

NeverSeen == -1

\* lines 299-305; None is written NeverSeen
report_status_of(equipment, detections_history) ==
    LET recent_detections == recent_detections_of(equipment, detections_history)
        detection_rate == detection_rate_of(equipment, detections_history)
    IN  [equipment |-> equipment,
         detection_rate |-> detection_rate,
         criticality |-> EQUIPMENT_CONFIG[equipment].criticality,
         last_detected |-> IF recent_detections # <<>>
                           THEN recent_detections[Len(recent_detections)].timestamp
                           ELSE NeverSeen,
         status |-> availability_of(detection_rate)]

\* lines 325-329
RoutineInventory ==
    [priority |-> "ROUTINE",
     action |-> "Conduct daily equipment inventory using AI detection system",
     rationale |-> "Maintain continuous safety equipment awareness"]

\* lines 319-323; the joined names are kept as the list that is joined
LocateAndVerify(critical_equipment) ==
    [priority |-> "IMMEDIATE",
     action |-> <<"Locate and verify: ", critical_equipment>>,
     rationale |-> "Critical safety equipment not consistently detected"]

\* A slip in line 318: the entry is appended whether or not a kind is CRITICAL.
recommendations_of_unconditional(critical_equipment) ==
    <<LocateAndVerify(critical_equipment), RoutineInventory>>

\* lines 318-329
recommendations_of(critical_equipment) ==
    (IF critical_equipment # <<>> THEN <<LocateAndVerify(critical_equipment)>> ELSE <<>>)
    \o <<RoutineInventory>>

\* report_id, generation_time and mission_day are three formats of one reading of
\* the clock, kept here as generation_time.
generate_crew_safety_report(detections_history, t) ==
    LET equipment_status_of == [equipment \in ConfigKinds |->
                                   report_status_of(equipment, detections_history)]
        critical_equipment ==
            SelectSeq(ConfigSeq, LAMBDA eq : equipment_status_of[eq].status = "CRITICAL")
        concerning_equipment ==
            SelectSeq(ConfigSeq, LAMBDA eq : equipment_status_of[eq].status = "CONCERNING")
    IN  [generation_time |-> t,
         equipment_status |-> equipment_status_of,
         trend_analysis |-> <<>>,
         recommendations |-> recommendations_of(critical_equipment),
         overall_safety_score |->
            100 - 20 * Len(critical_equipment) - 10 * Len(concerning_equipment)]

(***************************************************************************)
(* app.py: trigger rules, the detection log and the endpoints over them    *)
(***************************************************************************)
\* lines 157-163
triggered_alert(alert, detection, t) ==
    [alert_id |-> alert.id,
     alert_name |-> alert.name,
     detected_label |-> detection.label,
     confidence |-> detection.confidence,
     timestamp |-> t]

\* lines 155-156
alert_matches(alert, detection) ==
    /\ lower_label(detection.label) = lower_label(alert.label)
    /\ RGe(detection.confidence, alert.min_confidence)

\* A slip in line 164: without the break every matching detection adds a record.
alerts_of_rule_no_break(alert, detections, t) ==
    IF ~alert.active THEN <<>>
    ELSE MapSeq(SelectSeq(detections, LAMBDA d : alert_matches(alert, d)),
                LAMBDA d : triggered_alert(alert, d, t))

\* lines 148-164: one pass of the outer loop
alerts_of_rule(alert, detections, t) ==
    LET matching == SelectSeq(detections, LAMBDA d : alert_matches(alert, d))
    IN  IF ~alert.active \/ matching = <<>>
        THEN <<>>
        ELSE <<triggered_alert(alert, matching[1], t)>>

RECURSIVE check_alerts_from(_, _, _)
check_alerts_from(rules, detections, t) ==
    IF rules = <<>> THEN <<>>
    ELSE alerts_of_rule(rules[1], detections, t)
         \o check_alerts_from(Tail(rules), detections, t)

\* load_alerts() gives the rules of data/alerts.json
check_alerts(rules, detections, t) == check_alerts_from(rules, detections, t)

\* lines 633-640; the uuid is written as the rule's serial number
new_alert(rules, alert_data, t) ==
    [id |-> Len(rules) + 1,
     name |-> alert_data.name,
     label |-> alert_data.label,
     min_confidence |-> alert_data.min_confidence,
     active |-> alert_data.active,
     created_at |-> t]

LogFilename == "a.jpg"

\* lines 211-228
log_entries_of(filename, detections, t) ==
    IF detections = <<>>
    THEN <<[filename |-> filename, label |-> "no_detection", confidence |-> RInt(0),
            timestamp |-> t]>>
    ELSE MapSeq(detections,
                LAMBDA d : [filename |-> filename, label |-> d.label,
                            confidence |-> d.confidence, timestamp |-> t])

\* The assessment looks at the last 20 entries of the log.
StatusWindow == 20

\* line 818: logs[-20:]
status_window_of(entries) == last_entries(entries, StatusWindow)

\* lines 817-823
recent_detections_from(entries) ==
    [detections |->
        MapSeq(SelectSeq(status_window_of(entries), LAMBDA log : log.label # "no_detection"),
               LAMBDA log : [label |-> log.label, confidence |-> log.confidence])]

NoDetectionData ==
    [success |-> TRUE, equipment_status |-> <<>>, message |-> "No detection data available"]

\* get_equipment_status of /space-station/equipment-status
get_equipment_status(entries, t) ==
    IF entries = <<>>
    THEN NoDetectionData
    ELSE [success |-> TRUE,
          equipment_config |-> EQUIPMENT_CONFIG,
          current_assessment |-> assess_detection_criticality(recent_detections_from(entries)),
          response_protocols |-> generate_response_protocol(recent_detections_from(entries)),
          last_updated |-> t]

\* A slip in lines 876-882: the entries logged for one file are gathered into
\* one entry of the history.
detections_history_from_per_file(entries) ==
    LET detected == SelectSeq(entries, LAMBDA log : log.label # "no_detection")
    IN  IF detected = <<>> THEN <<>>
        ELSE <<[timestamp |-> detected[Len(detected)].timestamp,
                detections |-> MapSeq(detected,
                                      LAMBDA log : [label |-> log.label,
                                                    confidence |-> log.confidence])]>>

\* lines 876-882
detections_history_from(entries) ==
    MapSeq(SelectSeq(entries, LAMBDA log : log.label # "no_detection"),
           LAMBDA log : [timestamp |-> log.timestamp,
                         detections |-> <<[label |-> log.label,
                                           confidence |-> log.confidence]>>])

NoSafetyReport ==
    [success |-> TRUE, message |-> "No detection history available for safety report",
     report |-> NeverSeen]

\* get_crew_safety_report of /space-station/crew-safety-report
get_crew_safety_report(entries, t) ==
    IF entries = <<>>
    THEN NoSafetyReport
    ELSE LET safety_report == generate_crew_safety_report(detections_history_from(entries), t)
         IN  [success |-> TRUE,
              safety_report |-> safety_report,
              report_summary |->
                 [overall_safety_score |-> safety_report.overall_safety_score,
                  critical_items |->
                     Cardinality({eq \in ConfigKinds :
                                     safety_report.equipment_status[eq].status = "CRITICAL"}),
                  total_recommendations |-> Len(safety_report.recommendations)]]

(***************************************************************************)
(* The store as a state machine: calls arrive one at a time.               *)
(***************************************************************************)
MaxCalls == 2
MaxFaults == 1
MaxNow == 26

\* Hours that pass between the clock readings of two calls, and while idle.
CallHours == 1
IdleHours == 24

UpdateLabels == {"fire_extinguisher", "oxygen_tank"}
Confidences == {R(5, 10), R(7, 10), R(9, 10)}
StoreBBox == <<2, 2, 1, 1>>
ImagePaths == {"uploads/a.jpg"}

\* An analysis as update_equipment_detection reads it: analyze_position's error
\* dict has no 'placement_score' key.
Analyses == {InvalidBBox,
             [outcome |-> "ok", placement_score |-> R(9, 10),
              recommendations |-> <<>>, flags |-> <<>>]}

StoreInit ==
    /\ equipment_status = <<>>
    /\ detection_history = DefaultDict(<<>>)
    /\ status_file = AbsentFile
    /\ history_file = AbsentFile
    /\ now = 0
    /\ lastOp = "construct"
    /\ ret = NoRet
    /\ appended = <<>>
    /\ calls = 0
    /\ faults = 0

NoThreads == <<>>
NoInput == [detection |-> [label |-> "wrench", confidence |-> RInt(0), bbox |-> <<>>],
            image_dimensions |-> <<1, 1>>]
NoResult == [outcome |-> "none"]

NoOut == [op |-> "none"]

AppInit ==
    /\ logs = <<>>
    /\ alerts = <<>>
    /\ batch = <<>>
    /\ out = NoOut
    /\ reportHistory = <<>>

Init ==
    /\ StoreInit
    /\ threads = NoThreads
    /\ posIn = NoInput
    /\ posOut = NoResult
    /\ analysed = NoCall
    /\ AppInit

\* A call with its arguments drawn from the given sets.
UpdateFrom(labels, confidences, analyses, ios) ==
    /\ \E equipment_type \in labels, confidence \in confidences,
          image_path \in ImagePaths, analysis \in analyses, io \in ios :
          /\ io # "ok" => faults < MaxFaults
          /\ update_equipment_detection(equipment_type,
                                        [confidence |-> confidence, bbox |-> StoreBBox],
                                        image_path, analysis, CallHours, io)
    /\ UNCHANGED <<threads, analysed, reportHistory, posIn, posOut, logs, alerts, batch, out>>

Update ==
    /\ calls < MaxCalls
    /\ now + CallHours <= MaxNow
    /\ UpdateFrom(UpdateLabels, Confidences, Analyses, IoOutcomes)

Restart ==
    /\ Construct
    /\ UNCHANGED <<threads, analysed, reportHistory, posIn, posOut, logs, alerts, batch, out>>

\* Something other than this program damages a state file.
DamageFile ==
    /\ faults < MaxFaults
    /\ faults' = faults + 1
    /\ \/ status_file' = CorruptFile /\ UNCHANGED history_file
       \/ history_file' = CorruptFile /\ UNCHANGED status_file
    /\ lastOp' = "damage"
    /\ ret' = NoRet
    /\ UNCHANGED <<equipment_status, detection_history, now, appended, calls>>
    /\ UNCHANGED <<threads, analysed, reportHistory, posIn, posOut, logs, alerts, batch, out>>

\* Time passes with no call in progress.
Idle(limit) ==
    /\ now + IdleHours <= limit
    /\ now' = now + IdleHours
    /\ UNCHANGED <<equipment_status, detection_history, status_file, history_file,
                   lastOp, ret, appended, calls, faults>>
    /\ UNCHANGED <<threads, analysed, reportHistory, posIn, posOut, logs, alerts, batch, out>>

Tick == Idle(MaxNow)

GetSummary ==
    /\ ret' = get_equipment_status_summary(equipment_status, now)
    /\ lastOp' = "summary"
    /\ UNCHANGED <<equipment_status, detection_history, status_file, history_file,
                   now, appended, calls, faults>>
    /\ UNCHANGED <<threads, analysed, reportHistory, posIn, posOut, logs, alerts, batch, out>>

Next == Update \/ Restart \/ DamageFile \/ Tick \/ GetSummary

Spec == Init /\ [][Next]_vars

(***************************************************************************)
(* One kind updated many times, with no faults: the history reaches its    *)
(* capacity and evicts.                                                    *)
(***************************************************************************)
MaxLongCalls == 150

LongUpdate ==
    /\ calls < MaxLongCalls
    /\ UpdateFrom({"fire_extinguisher"}, {R(9, 10)}, Analyses \ {InvalidBBox}, {"ok"})

NextLong == LongUpdate \/ Restart

SpecLong == Init /\ [][NextLong]_vars

(***************************************************************************)
(* Single calls over a grid of confidences and placement scores.           *)
(***************************************************************************)
MaxGridCalls == 1

GridConfidences ==
    {R(i, 20) : i \in 0..20} \cup {R(79, 100), R(59, 100), R(49, 100)}

GridAnalyses ==
    {InvalidBBox} \cup
    {[outcome |-> "ok", placement_score |-> p, recommendations |-> <<>>, flags |-> <<>>] :
        p \in {R(69, 100), R(7, 10), R(71, 100), R(9, 10)}}

GridUpdate ==
    /\ calls < MaxGridCalls
    /\ UpdateFrom({"oxygen_tank", "wrench"}, GridConfidences, GridAnalyses, {"ok"})

NextGrid == GridUpdate \/ GetSummary

SpecGrid == Init /\ [][NextGrid]_vars

(***************************************************************************)
(* analyze_position as a function of its arguments.                        *)
(***************************************************************************)
PosLabels == {"fire_extinguisher", "Fire Extinguisher", "wrench"}
PosConfidences == {R(45, 100), R(7, 10), R(85, 100)}
PosBBoxes == {<<2, 2, 1, 1>>, <<8, 8, 4, 4>>, <<0, 0, 20, 20>>, <<5, 10, 10, 6>>,
              <<18, 18, 4, 4>>, <<0, 0, 7, 20>>, <<60, 2, 1, 1>>, <<2, 60, 1, 1>>, <<0, 0, 0, 0>>,
              <<>>, <<2, 2, 1>>, <<2, 2, 1, 1, 1>>}
PosDimensions == {<<20, 20>>, <<20, 10>>, <<0, 20>>, <<20, 0>>, <<-20, 20>>}

PosInputs ==
    {[detection |-> [label |-> l, confidence |-> c, bbox |-> b], image_dimensions |-> d] :
        l \in PosLabels, c \in PosConfidences, b \in PosBBoxes, d \in PosDimensions}

\* One call.  When the run is to compare later calls with an earlier one, a
\* call may be kept aside in place of the one kept so far.
AnalyzePosition(remember) ==
    /\ posOut = NoResult
    /\ posOut' = analyze_position(posIn.detection, posIn.image_dimensions)
    /\ \E keep \in {FALSE, remember} :
          analysed' = IF keep
                      THEN [outcome |-> "called", in |-> posIn, out |-> posOut']
                      ELSE analysed
    /\ UNCHANGED <<posIn, threads>>
    /\ UNCHANGED storeVars
    /\ UNCHANGED appVars

Analyze == AnalyzePosition(FALSE)

NextDetectionFrom(inputs) ==
    /\ posOut # NoResult
    /\ posIn' \in inputs
    /\ posOut' = NoResult
    /\ UNCHANGED <<threads, analysed>>
    /\ UNCHANGED storeVars
    /\ UNCHANGED appVars

NextDetection == NextDetectionFrom(PosInputs)

NextPos == Analyze \/ NextDetection

SpecPos == Init /\ [][NextPos]_vars

(***************************************************************************)
(* analyze_position called again on an argument it was called on before,   *)
(* with other calls and updates of the store in between.                   *)
(***************************************************************************)
TwiceInputs ==
    {[detection |-> [label |-> l, confidence |-> c, bbox |-> b], image_dimensions |-> d] :
        l \in {"fire_extinguisher", "Fire Extinguisher"},
        c \in {R(7, 10), R(85, 100)},
        b \in {<<2, 2, 1, 1>>, <<8, 8, 4, 4>>, <<2, 2, 1>>},
        d \in {<<20, 20>>, <<20, 10>>}}

AnalyzeTwice == AnalyzePosition(TRUE)

NextTwiceDetection == NextDetectionFrom(TwiceInputs)

TwiceUpdate ==
    /\ calls < MaxGridCalls
    /\ UpdateFrom({"fire_extinguisher"}, {R(9, 10)}, Analyses, {"ok"})

NextTwice == AnalyzeTwice \/ NextTwiceDetection \/ TwiceUpdate

SpecTwice == Init /\ [][NextTwice]_vars

(***************************************************************************)
(* Two threads inside update_equipment_detection on the one dashboard of   *)
(* app.py.  The method takes no lock; the interpreter may switch threads   *)
(* between any two accesses to the shared dicts and files.                 *)
(***************************************************************************)
ThreadIds == {1, 2}
ConcLabel == "fire_extinguisher"
ConcConfidences == {R(7, 10), R(9, 10)}
ConcAnalysis == [outcome |-> "ok", placement_score |-> R(9, 10),
                 recommendations |-> <<>>, flags |-> <<>>]

\* open(path, 'w') has emptied the file and nothing is written yet.
EmptyFile == [state |-> "empty", data |-> <<>>]

IdleThread == [pc |-> "idle", confidence |-> RInt(0), record |-> <<>>, tmp |-> <<>>]

ConcInit ==
    /\ StoreInit
    /\ threads = [t \in ThreadIds |-> IdleThread]
    /\ posIn = NoInput
    /\ posOut = NoResult
    /\ analysed = NoCall
    /\ AppInit

DetectionOf(t) == [confidence |-> threads[t].confidence, bbox |-> StoreBBox]

Goto(t, pc) == threads' = [threads EXCEPT ![t].pc = pc]

\* lines 275-308, right-hand side: the new record is built from the count read now
T_Read(t) ==
    /\ threads[t].pc = "idle"
    /\ \E confidence \in ConcConfidences :
          threads' = [threads EXCEPT ![t] =
              [pc |-> "store", confidence |-> confidence,
               record |-> status_record(equipment_status, ConcLabel,
                                        [confidence |-> confidence, bbox |-> StoreBBox],
                                        "uploads/a.jpg", ConcAnalysis, now),
               tmp |-> <<>>]]
    /\ calls' = calls + 1
    /\ UNCHANGED <<equipment_status, detection_history, status_file, history_file,
                   now, lastOp, ret, appended, faults, posIn, posOut, logs, alerts, batch, out,
                   analysed, reportHistory>>

\* line 299, the store into self.equipment_status
T_Store(t) ==
    /\ threads[t].pc = "store"
    /\ equipment_status' = Put(equipment_status, ConcLabel, threads[t].record)
    /\ Goto(t, "append")
    /\ UNCHANGED <<detection_history, status_file, history_file,
                   now, lastOp, ret, appended, calls, faults, posIn, posOut, logs, alerts, batch, out,
                   analysed, reportHistory>>

\* line 319
T_Append(t) ==
    /\ threads[t].pc = "append"
    /\ has_history_list(detection_history, ConcLabel)
    /\ LET entry == history_entry(DetectionOf(t), "uploads/a.jpg", ConcAnalysis,
                                  threads[t].record.last_seen)
       IN  /\ detection_history' =
                 [detection_history EXCEPT !.d =
                     Put(@, ConcLabel,
                         Append(history_list(detection_history, ConcLabel), entry))]
           /\ appended' = Put(appended, ConcLabel,
                              Append(EntriesOf(appended, ConcLabel), entry))
    /\ Goto(t, "slice")
    /\ UNCHANGED <<equipment_status, status_file, history_file,
                   now, lastOp, ret, calls, faults, posIn, posOut, logs, alerts, batch, out,
                   analysed, reportHistory>>

\* lines 322-323, right-hand side: the list as it is to be after the limit
T_Slice(t) ==
    /\ threads[t].pc = "slice"
    /\ threads' = [threads EXCEPT
                      ![t].pc = "assign",
                      ![t].tmp = limit_history(history_list(detection_history, ConcLabel))]
    /\ UNCHANGED storeVars
    /\ UNCHANGED <<posIn, posOut, logs, alerts, batch, out,
                   analysed, reportHistory>>

\* line 323, the store into self.detection_history, made only when line 322 held
T_Assign(t) ==
    /\ threads[t].pc = "assign"
    /\ detection_history' =
          IF Len(threads[t].tmp) = max_history_per_equipment
             /\ Len(history_list(detection_history, ConcLabel)) > max_history_per_equipment
          THEN [detection_history EXCEPT !.d = Put(@, ConcLabel, threads[t].tmp)]
          ELSE detection_history
    /\ Goto(t, "open_status")
    /\ UNCHANGED <<equipment_status, status_file, history_file,
                   now, lastOp, ret, appended, calls, faults, posIn, posOut, logs, alerts, batch, out,
                   analysed, reportHistory>>

\* What a writer leaves that opened the file, dumped its JSON text and closed:
\* its text if the file was still empty, else its text laid over what another
\* writer put there since, which parses only if the older text was not longer.
written_over(file, text) ==
    IF file.state = "empty" THEN {text} ELSE {text, CorruptFile}

\* line 253
T_OpenStatus(t) ==
    /\ threads[t].pc = "open_status"
    /\ status_file' = EmptyFile
    /\ Goto(t, "write_status")
    /\ UNCHANGED <<equipment_status, detection_history, history_file,
                   now, lastOp, ret, appended, calls, faults, posIn, posOut, logs, alerts, batch, out,
                   analysed, reportHistory>>

\* line 254
T_WriteStatus(t) ==
    /\ threads[t].pc = "write_status"
    /\ status_file' \in written_over(status_file, _save_equipment_status(equipment_status))
    /\ Goto(t, "open_history")
    /\ UNCHANGED <<equipment_status, detection_history, history_file,
                   now, lastOp, ret, appended, calls, faults, posIn, posOut, logs, alerts, batch, out,
                   analysed, reportHistory>>

\* line 268
T_OpenHistory(t) ==
    /\ threads[t].pc = "open_history"
    /\ history_file' = EmptyFile
    /\ Goto(t, "write_history")
    /\ UNCHANGED <<equipment_status, detection_history, status_file,
                   now, lastOp, ret, appended, calls, faults, posIn, posOut, logs, alerts, batch, out,
                   analysed, reportHistory>>

\* line 269
T_WriteHistory(t) ==
    /\ threads[t].pc = "write_history"
    /\ history_file' \in written_over(history_file,
                                      _save_detection_history(detection_history))
    /\ Goto(t, "done")
    /\ UNCHANGED <<equipment_status, detection_history, status_file,
                   now, lastOp, ret, appended, calls, faults, posIn, posOut, logs, alerts, batch, out,
                   analysed, reportHistory>>

NextConc ==
    \E t \in ThreadIds :
        \/ T_Read(t)
        \/ T_Store(t)
        \/ T_Append(t)
        \/ T_Slice(t)
        \/ T_Assign(t)
        \/ T_OpenStatus(t)
        \/ T_WriteStatus(t)
        \/ T_OpenHistory(t)
        \/ T_WriteHistory(t)

SpecConc == ConcInit /\ [][NextConc]_vars

(***************************************************************************)
(* Every catalog kind detected once, in catalog order, and the summary.    *)
(***************************************************************************)
GoodAnalysis == [outcome |-> "ok", placement_score |-> R(9, 10),
                 recommendations |-> <<>>, flags |-> <<>>]

AllKindsUpdate ==
    /\ calls < Len(CatalogSeq)
    /\ \/ UpdateFrom({CatalogSeq[calls + 1]}, {R(5, 10), R(7, 10), R(9, 10)},
                     {GoodAnalysis}, {"ok"})
       \/ UpdateFrom({CatalogSeq[calls + 1]}, {R(9, 10)}, {InvalidBBox}, {"ok"})

NextAll == AllKindsUpdate \/ GetSummary

SpecAll == Init /\ [][NextAll]_vars

(***************************************************************************)
(* One kind updated a few times over two days, and its trends.             *)
(***************************************************************************)
MaxTrendCalls == 3
MaxTrendNow == 50
TrendKinds == {"fire_extinguisher", "oxygen_tank"}
TrendDays == {1, 7}

TrendUpdate ==
    /\ calls < MaxTrendCalls
    /\ now + CallHours <= MaxTrendNow
    /\ UpdateFrom({"fire_extinguisher"}, {R(5, 10), R(7, 10), R(9, 10)}, Analyses, {"ok"})

TrendTick == Idle(MaxTrendNow)

\* The endpoint of app.py: days is between 1 and 30.
GetTrends ==
    /\ \E equipment_type \in TrendKinds, days \in TrendDays :
          /\ ret' = [op |-> "trends", equipment_type |-> equipment_type, days |-> days,
                     at |-> now,
                     trends |-> get_equipment_trends(detection_history, equipment_type,
                                                     days, now)]
          /\ detection_history' =
                detection_history_after_trends(detection_history, equipment_type)
    /\ lastOp' = "trends"
    /\ UNCHANGED <<equipment_status, status_file, history_file, now, appended, calls, faults>>
    /\ UNCHANGED <<threads, analysed, reportHistory, posIn, posOut, logs, alerts, batch, out>>

NextTrend == TrendUpdate \/ TrendTick \/ GetTrends

SpecTrend == Init /\ [][NextTrend]_vars

(***************************************************************************)
(* Updates of several kinds with restarts and reads in between; no file    *)
(* fault occurs.                                                           *)
(***************************************************************************)
MaxRunCalls == 3

RunLabels == {"fire_extinguisher", "oxygen_tank"}
RunConfidences == {R(45, 100), R(9, 10)}

RunUpdate ==
    /\ calls < MaxRunCalls
    /\ UpdateFrom(RunLabels, RunConfidences, {GoodAnalysis}, {"ok"})

NextRun == RunUpdate \/ Restart \/ GetSummary \/ GetTrends

SpecRun == Init /\ [][NextRun]_vars

(***************************************************************************)
(* The detections of one image, and the mission log entry made of them.    *)
(***************************************************************************)
MaxBatch == 4
AssessLabels == {"Fire Extinguisher", "oxygen_tank", "fire_alarm", "safety_switch_panel",
                 "wrench"}
UnsureLabels == {"Fire Extinguisher", "wrench"}

\* run_inference appends one detection per box found.
AddDetectionFrom(labels, confidences, limit) ==
    /\ Len(batch) < limit
    /\ \E label \in labels, confidence \in confidences :
          batch' = Append(batch, [label |-> label, confidence |-> confidence,
                                  bbox |-> StoreBBox])
    /\ out' = NoOut
    /\ lastOp' = "run_inference"
    /\ UNCHANGED <<equipment_status, detection_history, status_file, history_file,
                   now, ret, appended, calls, faults>>
    /\ UNCHANGED <<threads, analysed, reportHistory, posIn, posOut, logs, alerts>>

AssessDetect ==
    \/ AddDetectionFrom(AssessLabels, {R(9, 10)}, MaxBatch)
    \/ AddDetectionFrom(UnsureLabels, {R(65, 100)}, MaxBatch)

CreateMissionEntry ==
    /\ out' = create_mission_entry([filename |-> LogFilename, detections |-> batch],
                                   "crew", "UNKNOWN", now)
    /\ lastOp' = "mission_entry"
    /\ UNCHANGED <<equipment_status, detection_history, status_file, history_file,
                   now, ret, appended, calls, faults>>
    /\ UNCHANGED <<threads, analysed, reportHistory, posIn, posOut, logs, alerts, batch>>

NextAssess == AssessDetect \/ CreateMissionEntry

SpecAssess == Init /\ [][NextAssess]_vars

(***************************************************************************)
(* Trigger rules checked against the detections of one image.              *)
(***************************************************************************)
MaxRules == 2
MaxAlertBatch == 2
AlertLabels == {"Fire Extinguisher", "fire_extinguisher", "wrench"}
AlertConfidences == {R(65, 100), R(7, 10)}
AlertData ==
    {[name |-> "rule", label |-> l, min_confidence |-> R(7, 10), active |-> a] :
        l \in {"Fire Extinguisher", "fire_extinguisher"}, a \in BOOLEAN}

\* create_alert of /alerts
CreateAlert ==
    /\ Len(alerts) < MaxRules
    /\ \E alert_data \in AlertData :
          /\ alerts' = Append(alerts, new_alert(alerts, alert_data, now))
          /\ out' = [success |-> TRUE, message |-> "Alert created successfully",
                     alert |-> new_alert(alerts, alert_data, now)]
    /\ lastOp' = "create_alert"
    /\ UNCHANGED <<equipment_status, detection_history, status_file, history_file,
                   now, ret, appended, calls, faults>>
    /\ UNCHANGED <<threads, analysed, reportHistory, posIn, posOut, logs, batch>>

AlertDetect == AddDetectionFrom(AlertLabels, AlertConfidences, MaxAlertBatch)

CheckAlerts ==
    /\ out' = check_alerts(alerts, batch, now)
    /\ lastOp' = "check_alerts"
    /\ UNCHANGED <<equipment_status, detection_history, status_file, history_file,
                   now, ret, appended, calls, faults>>
    /\ UNCHANGED <<threads, analysed, reportHistory, posIn, posOut, logs, alerts, batch>>

NextAlerts == CreateAlert \/ AlertDetect \/ CheckAlerts

SpecAlerts == Init /\ [][NextAlerts]_vars

(***************************************************************************)
(* The detection log, and the assessment and the report drawn from it.     *)
(* The images logged one after the other show the same thing, but for a    *)
(* bounded number of changes.                                              *)
(***************************************************************************)
MaxLogs == 22
MaxLogChanges == 2
MaxReportLogs == 51
MaxReportChanges == 1

LogBatches ==
    {<<>>,
     <<[label |-> "fire_extinguisher", confidence |-> R(9, 10), bbox |-> StoreBBox]>>,
     <<[label |-> "Oxygen Tank", confidence |-> R(9, 10), bbox |-> StoreBBox]>>}

LabelChanges(entries) ==
    Cardinality({i \in 1..(Len(entries) - 1) : entries[i].label # entries[i + 1].label})

\* log_detection(filename, detections): load_logs, append, save_logs
LogDetection(batches, limit, changes) ==
    /\ \E detections \in batches :
          LET entries == logs \o log_entries_of(LogFilename, detections, now)
          IN  /\ Len(entries) <= limit
              /\ LabelChanges(entries) <= changes
              /\ logs' = entries
              /\ batch' = detections
    /\ out' = NoOut
    /\ lastOp' = "log_detection"
    /\ UNCHANGED <<equipment_status, detection_history, status_file, history_file,
                   now, ret, appended, calls, faults>>
    /\ UNCHANGED <<threads, analysed, reportHistory, posIn, posOut, alerts>>

StatusLog == LogDetection(LogBatches, MaxLogs, MaxLogChanges)

GetEquipmentStatus ==
    /\ out' = get_equipment_status(logs, now)
    /\ lastOp' = "equipment_status"
    /\ UNCHANGED <<equipment_status, detection_history, status_file, history_file,
                   now, ret, appended, calls, faults>>
    /\ UNCHANGED <<threads, analysed, reportHistory, posIn, posOut, logs, alerts, batch>>

NextStatus == StatusLog \/ GetEquipmentStatus

SpecStatus == Init /\ [][NextStatus]_vars

\* Here only the first image may show nothing.
ReportLog ==
    LogDetection(IF logs = <<>> THEN LogBatches ELSE LogBatches \ {<<>>},
                 MaxReportLogs, MaxReportChanges)

GetCrewSafetyReport ==
    /\ out' = get_crew_safety_report(logs, now)
    /\ lastOp' = "safety_report"
    /\ UNCHANGED <<equipment_status, detection_history, status_file, history_file,
                   now, ret, appended, calls, faults>>
    /\ UNCHANGED <<threads, analysed, reportHistory, posIn, posOut, logs, alerts, batch>>

NextReport == ReportLog \/ GetCrewSafetyReport

SpecReport == Init /\ [][NextReport]_vars

(***************************************************************************)
(* generate_crew_safety_report on histories whose entries hold the         *)
(* detections of whole images.                                             *)
(***************************************************************************)
MaxSafetyHistory == 4

AllSevenKinds ==
    <<[label |-> "Fire Extinguisher", confidence |-> R(9, 10)],
      [label |-> "oxygen_tank", confidence |-> R(9, 10)],
      [label |-> "nitrogen_tank", confidence |-> R(9, 10)],
      [label |-> "first_aid_box", confidence |-> R(9, 10)],
      [label |-> "fire_alarm", confidence |-> R(9, 10)],
      [label |-> "safety_switch_panel", confidence |-> R(9, 10)],
      [label |-> "emergency_phone", confidence |-> R(9, 10)]>>

SafetyImages ==
    {AllSevenKinds,
     SubSeq(AllSevenKinds, 1, 6),
     SubSeq(AllSevenKinds, 1, 1),
     <<>>}

\* The caller appends one entry per image to the history it hands over.
AddHistoryEntry ==
    /\ Len(reportHistory) < MaxSafetyHistory
    /\ \E detections \in SafetyImages :
          reportHistory' = Append(reportHistory,
                                  [timestamp |-> now, detections |-> detections])
    /\ out' = NoOut
    /\ lastOp' = "history_entry"
    /\ UNCHANGED <<equipment_status, detection_history, status_file, history_file,
                   now, ret, appended, calls, faults>>
    /\ UNCHANGED <<threads, analysed, posIn, posOut, logs, alerts, batch>>

GenerateCrewSafetyReport ==
    /\ out' = generate_crew_safety_report(reportHistory, now)
    /\ lastOp' = "crew_safety_report"
    /\ UNCHANGED <<equipment_status, detection_history, status_file, history_file,
                   now, ret, appended, calls, faults>>
    /\ UNCHANGED <<threads, analysed, reportHistory, posIn, posOut, logs, alerts, batch>>

NextSafety == AddHistoryEntry \/ GenerateCrewSafetyReport

SpecSafety == Init /\ [][NextSafety]_vars

(***************************************************************************)
(* The positioning endpoint of app.py and the loop it runs over the         *)
(* detections of an image.                                                 *)
(***************************************************************************)
\* predict.py line 14: def run_inference(image_path, confidence_threshold=0.5)
RunInferenceParameters == {"image_path", "confidence_threshold"}

\* A call binds its keyword arguments to parameters of these names, or raises
\* TypeError before the function's body runs.
call_binds(keywords) == keywords \subseteq RunInferenceParameters

AnalysisFailed == [op |-> "positioning", status_code |-> 500, detail |-> "Analysis failed"]

\* analyze_equipment_positioning as it stands: line 980 passes confidence=0.5,
\* the TypeError is caught at line 1011 and answered with status 500, and the
\* loop of lines 984-997 is not reached.
AnalyzeEquipmentPositioning ==
    /\ ~call_binds({"confidence"})
    /\ out' = AnalysisFailed
    /\ lastOp' = "positioning_TypeError"
    /\ ret' = NoRet
    /\ UNCHANGED <<equipment_status, detection_history, status_file, history_file,
                   now, appended, calls, faults>>
    /\ UNCHANGED <<threads, analysed, reportHistory, posIn, posOut, logs, alerts, batch>>

\* The labels of the detections the loop is given, one after the other.
PipelineLabels ==
    <<"Fire Extinguisher", "oxygen_tank", "first_aid_box", "nitrogen_tank",
      "fire_alarm", "safety_switch_panel", "emergency_phone", "fire_extinguisher">>
PipelineConfidences == {R(7, 10), R(9, 10)}
PipelineBBox == <<8, 8, 4, 4>>
PipelineDimensions == <<20, 20>>

\* Lines 984-997, the body of the loop for one detection of an inference
\* result: the analysis, then the update under the detection's label as it is.
PositioningUpdate ==
    /\ calls < Len(PipelineLabels)
    /\ \E confidence \in PipelineConfidences :
          LET detection == [label |-> PipelineLabels[calls + 1],
                            confidence |-> confidence, bbox |-> PipelineBBox]
              analysis == analyze_position(detection, PipelineDimensions)
              equipment_type == detection.label
          IN  /\ posIn' = [detection |-> detection, image_dimensions |-> PipelineDimensions]
              /\ posOut' = analysis
              /\ update_equipment_detection(equipment_type, detection, "uploads/a.jpg",
                                            analysis, CallHours, "ok")
    /\ UNCHANGED <<threads, analysed, reportHistory, logs, alerts, batch, out>>

NextPipeline == AnalyzeEquipmentPositioning \/ PositioningUpdate \/ GetSummary

SpecPipeline == Init /\ [][NextPipeline]_vars

(***************************************************************************)
(* Properties                                                              *)
(***************************************************************************)
LastN(s, n) == IF Len(s) > n THEN SubSeq(s, Len(s) - n + 1, Len(s)) ELSE s

\* C1: after any sequence of calls the stored history of a kind has at most 100
\* entries and is the last min(n, 100) of the n entries appended for it, oldest
\* first.
C1_HistoryIsLast100 ==
    \A k \in AllLabels :
        /\ Len(history_list(detection_history, k)) <= 100
        /\ history_list(detection_history, k) = LastN(EntriesOf(appended, k), 100)

C1_Witness ==
    /\ Len(EntriesOf(appended, "fire_extinguisher")) > 100
    /\ Len(history_list(detection_history, "fire_extinguisher")) = 100
    /\ lastOp = "update_ok"

\* C2: the status of a stored record follows the ordered rule over its tier and
\* placement score: HIGH and score > 0.7 is AVAILABLE; else MEDIUM, LOW or
\* score <= 0.7 is NEEDS_REVIEW; else (UNCERTAIN and score > 0.7) CRITICAL.
C2_StatusRule ==
    \A k \in DOMAIN equipment_status :
        LET r == equipment_status[k]
            good == RGt(r.placement_score, R(7, 10))
        IN  /\ (r.confidence_level = "HIGH" /\ good) => r.status = "AVAILABLE"
            /\ (r.confidence_level = "HIGH" /\ ~good) => r.status = "NEEDS_REVIEW"
            /\ r.confidence_level \in {"MEDIUM", "LOW"} => r.status = "NEEDS_REVIEW"
            /\ (r.confidence_level = "UNCERTAIN" /\ ~good) => r.status = "NEEDS_REVIEW"
            /\ (r.confidence_level = "UNCERTAIN" /\ good) => r.status = "CRITICAL"
            /\ (r.confidence = R(45, 100) /\ r.placement_score = R(9, 10))
                  => r.status = "CRITICAL"

C2_Witness ==
    /\ "oxygen_tank" \in DOMAIN equipment_status
    /\ equipment_status["oxygen_tank"].confidence = R(45, 100)
    /\ equipment_status["oxygen_tank"].placement_score = R(9, 10)
    /\ equipment_status["oxygen_tank"].status = "CRITICAL"

ValidGeometry(in) ==
    /\ Len(in.detection.bbox) = 4
    /\ \A i \in 1..4 : in.detection.bbox[i] >= 0
    /\ in.image_dimensions[1] > 0
    /\ in.image_dimensions[2] > 0

InUnitInterval(q) == RGe(q, RInt(0)) /\ RLe(q, RInt(1))

\* C4: for a valid bbox and positive image dimensions, analyze_position returns
\* a placement score and an accessibility score that both lie in [0, 1].
C4_ScoresInUnitInterval ==
    (posOut # NoResult /\ ValidGeometry(posIn)) =>
        /\ posOut.outcome = "ok"
        /\ InUnitInterval(posOut.placement_score)
        /\ InUnitInterval(posOut.accessibility.score)

\* C5: analyze_position returns an error result, with no scores and no
\* exception, whenever the bbox does not have 4 elements or an image dimension
\* is <= 0.
C5_InvalidGeometryIsAnError ==
    (posOut # NoResult
     /\ (Len(posIn.detection.bbox) # 4
         \/ posIn.image_dimensions[1] <= 0 \/ posIn.image_dimensions[2] <= 0)) =>
        posOut.outcome = "error"

AllDone == \A t \in ThreadIds : threads[t].pc = "done"

\* C6: two concurrent calls for one kind end as two calls one after the other
\* would: the count has grown by 2, the history holds both entries, each once,
\* within the bound of 100, and the record is the one of the entry appended last.
C6_ConcurrentCallsSerialize ==
    (threads # NoThreads /\ AllDone) =>
        LET h == history_list(detection_history, ConcLabel)
        IN  /\ equipment_status[ConcLabel].detection_count = 2
            /\ Len(h) = 2
            /\ Len(h) <= 100
            /\ \E t1, t2 \in ThreadIds :
                  /\ t1 # t2
                  /\ h[1].confidence = threads[t1].confidence
                  /\ h[2].confidence = threads[t2].confidence
                  /\ equipment_status[ConcLabel].confidence = threads[t2].confidence

\* C7: after a completed update, a new dashboard constructed on the same files
\* holds the same equipment_status and the same histories as the one in memory.
C7_RestartRestoresState ==
    lastOp = "update_ok" =>
        /\ _load_equipment_status(status_file) = equipment_status
        /\ _load_detection_history(history_file).d = detection_history.d

C7_Witness ==
    /\ lastOp = "update_ok"
    /\ ~detection_history.dflt
    /\ Len(history_list(detection_history, "fire_extinguisher")) = 2
    /\ equipment_status["fire_extinguisher"].detection_count = 2

\* C8: a state file that is corrupt when the dashboard is constructed gives the
\* state that a missing file gives: empty, and for the history a defaultdict, so
\* that every later call finds the store it would find had the data never been.
C8_CorruptIsAbsent ==
    /\ status_file.state = "corrupt" =>
          _load_equipment_status(status_file) = _load_equipment_status(AbsentFile)
    /\ history_file.state = "corrupt" =>
          _load_detection_history(history_file) = _load_detection_history(AbsentFile)
    /\ (lastOp = "construct" /\ status_file.state = "corrupt") => equipment_status = <<>>
    /\ (lastOp = "construct" /\ history_file.state = "corrupt") =>
          detection_history = DefaultDict(<<>>)

C8_Witness ==
    /\ lastOp = "construct"
    /\ history_file.state = "corrupt"
    /\ status_file.state = "ok"
    /\ equipment_status # <<>>

\* The persisted record of a kind and the persisted history of that kind tell of
\* the same last update.
FilesAgree ==
    (status_file.state = "ok" /\ history_file.state = "ok") =>
        \A k \in DOMAIN status_file.data :
            /\ k \in DOMAIN history_file.data
            /\ history_file.data[k] # <<>>
            /\ history_file.data[k][Len(history_file.data[k])].timestamp
                  = status_file.data[k].last_seen

\* C9: a call whose save fails leaves each state file holding a complete value
\* (none is newly truncated) and leaves the two files in agreement.
C9_SaveFailureKeepsFilesWhole ==
    [][lastOp' = "update_IOError" =>
          /\ status_file.state # "corrupt" => status_file'.state # "corrupt"
          /\ history_file.state # "corrupt" => history_file'.state # "corrupt"
          /\ FilesAgree => FilesAgree']_vars

\* C10: the summary of a store with no record lists the 7 catalog kinds as
\* missing and never detected, has no critical alert, and is CRITICAL overall.
C10_EmptyStoreSummary ==
    (lastOp = "summary" /\ equipment_status = <<>>) =>
        /\ Len(ret.missing_equipment) = 7
        /\ \A i \in 1..7 :
              /\ ret.missing_equipment[i].equipment = CatalogSeq[i]
              /\ ret.missing_equipment[i].last_seen = NeverDetected
        /\ {ret.missing_equipment[i].equipment : i \in 1..7} = Catalog
        /\ ret.critical_alerts = <<>>
        /\ ret.overall_status = "CRITICAL"

C10_Witness ==
    /\ lastOp = "summary"
    /\ equipment_status = <<>>
    /\ calls > 0
    /\ ret.overall_status = "CRITICAL"

\* C11: the summary's overall status is CRITICAL iff there is a critical alert or
\* more than 2 missing kinds, else NEEDS_ATTENTION iff needs_review > 0 or a kind
\* is missing, else NOMINAL; so NOMINAL is reported only when no catalog kind is
\* missing, none has confidence below 0.6 and none has status NEEDS_REVIEW.
C11_OverallStatusRule ==
    lastOp = "summary" =>
        /\ ret.overall_status = "CRITICAL"
              <=> (Len(ret.critical_alerts) > 0 \/ Len(ret.missing_equipment) > 2)
        /\ ret.overall_status = "NEEDS_ATTENTION"
              <=> /\ ~(Len(ret.critical_alerts) > 0 \/ Len(ret.missing_equipment) > 2)
                  /\ (ret.needs_review > 0 \/ Len(ret.missing_equipment) > 0)
        /\ ret.overall_status \in {"CRITICAL", "NEEDS_ATTENTION", "NOMINAL"}
        /\ ret.overall_status = "NOMINAL"
              => /\ Catalog \subseteq DOMAIN equipment_status
                 /\ \A k \in Catalog :
                       /\ (now - equipment_status[k].last_seen) * SecondsPerHour
                             <= MissingAfterSeconds
                       /\ RGe(equipment_status[k].confidence, R(6, 10))
                       /\ equipment_status[k].status # "NEEDS_REVIEW"

\* C12: high_confidence_detections counts the catalog kinds whose tier is HIGH and
\* needs_review counts the catalog kinds whose status is NEEDS_REVIEW, each on its
\* own: a kind that is HIGH and NEEDS_REVIEW is counted in both.
C12_IndependentTallies ==
    lastOp = "summary" =>
        /\ ret.high_confidence_detections =
              Cardinality({k \in Catalog \cap DOMAIN equipment_status :
                              equipment_status[k].confidence_level = "HIGH"})
        /\ ret.needs_review =
              Cardinality({k \in Catalog \cap DOMAIN equipment_status :
                              equipment_status[k].status = "NEEDS_REVIEW"})

\* The entries of a kind that lie in the window of a trends call.
InWindow(k, days, t) ==
    SelectSeq(EntriesOf(appended, k), LAMBDA e : e.timestamp >= t - days * HoursPerDay)

C14_TrendDirection ==
    (lastOp = "trends" /\ "error" \notin DOMAIN ret.trends) =>
        LET w == InWindow(ret.equipment_type, ret.days, ret.at)
            first == w[1].confidence
            last == w[Len(w)].confidence
            hi == CHOOSE c \in {w[i].confidence : i \in 1..Len(w)} :
                      \A j \in 1..Len(w) : RGe(c, w[j].confidence)
            lo == CHOOSE c \in {w[i].confidence : i \in 1..Len(w)} :
                      \A j \in 1..Len(w) : RLe(c, w[j].confidence)
        IN  /\ ret.trends.confidence_trend = "improving" <=> RGt(last, first)
            /\ ret.trends.confidence_trend = "declining" <=> ~RGt(last, first)
            /\ ret.trends.consistency_score = RSub(RInt(1), RSub(hi, lo))
            /\ (Len(w) = 3 /\ w[1].confidence = R(5, 10) /\ w[2].confidence = R(7, 10)
                  /\ w[3].confidence = R(9, 10))
                  => /\ ret.trends.confidence_trend = "improving"
                     /\ ret.trends.consistency_score = R(6, 10)

C14_Witness ==
    /\ lastOp = "trends"
    /\ "error" \notin DOMAIN ret.trends
    /\ ret.trends.total_detections = 3
    /\ ret.trends.confidence_trend = "improving"
    /\ ret.trends.consistency_score = R(6, 10)

\* The catalog kinds that no detection of the batch names, once normalized.
NotDetected(detections) ==
    {k \in ConfigKinds : \A i \in 1..Len(detections) : normalize_label(detections[i].label) # k}

SeqToSet(s) == {s[i] : i \in 1..Len(s)}

\* C15: assess_detection_criticality lists as missing exactly the catalog kinds
\* that equal no detection's normalized label, each with its catalog criticality;
\* critical_items is exactly the missing kinds of criticality CRITICAL; the
\* overall status is CRITICAL iff critical_items is non-empty, else NOMINAL.
C15_MissingAndCritical ==
    lastOp = "mission_entry" =>
        LET a == out.criticality_assessment
            missing == NotDetected(batch)
        IN  /\ {a.missing_equipment[i].equipment : i \in 1..Len(a.missing_equipment)} = missing
            /\ Len(a.missing_equipment) = Cardinality(missing)
            /\ \A i \in 1..Len(a.missing_equipment) :
                  a.missing_equipment[i].criticality
                      = EQUIPMENT_CONFIG[a.missing_equipment[i].equipment].criticality
            /\ SeqToSet(a.critical_items)
                  = {k \in missing : EQUIPMENT_CONFIG[k].criticality = "CRITICAL"}
            /\ Len(a.critical_items) = Cardinality(SeqToSet(a.critical_items))
            /\ a.overall_status = "CRITICAL" <=> a.critical_items # <<>>
            /\ a.overall_status = "NOMINAL" <=> a.critical_items = <<>>

\* Every CRITICAL kind is detected, one of them under a label with capitals and
\* a space, and the kinds of criticality HIGH are missing.
C15_Witness ==
    /\ lastOp = "mission_entry"
    /\ out.criticality_assessment.overall_status = "NOMINAL"
    /\ Len(out.criticality_assessment.missing_equipment) = 3
    /\ \E i \in 1..Len(batch) : batch[i].label = "Fire Extinguisher"

\* C16: the assessment of /space-station/equipment-status is computed from exactly
\* the last min(20, total) real detections of the log, however many no_detection
\* entries lie between them.
C16_LastTwentyDetections ==
    (lastOp = "equipment_status" /\ logs # <<>>) =>
        LET real == SelectSeq(logs, LAMBDA log : log.label # "no_detection")
            lastReal == IF Len(real) > 20 THEN SubSeq(real, Len(real) - 19, Len(real))
                        ELSE real
        IN  out.current_assessment
              = assess_detection_criticality(
                    [detections |-> [i \in 1..Len(lastReal) |->
                                        [label |-> lastReal[i].label,
                                         confidence |-> lastReal[i].confidence]]])

Position(k) == CHOOSE i \in 1..Len(ConfigSeq) : ConfigSeq[i] = k

\* C17: generate_response_protocol has one entry per missing kind, in catalog
\* order, with the kind's catalog criticality as priority, an action naming the
\* kind, and the static checklist of the kind's emergency type.
C17_ProtocolPerMissingKind ==
    lastOp = "mission_entry" =>
        LET missing == out.criticality_assessment.missing_equipment
            entries == SelectSeq(out.required_actions,
                                 LAMBDA e : "emergency_checklist" \in DOMAIN e)
        IN  /\ Len(entries) = Len(missing)
            /\ Len(missing) = Cardinality(NotDetected(batch))
            /\ \A i \in 1..Len(entries) :
                  LET k == missing[i].equipment
                  IN  /\ k \in NotDetected(batch)
                      /\ entries[i].priority = EQUIPMENT_CONFIG[k].criticality
                      /\ entries[i].action = LocatePrefix \o upper_chars(k)
                      /\ entries[i].emergency_checklist
                            = generate_emergency_checklist(EQUIPMENT_CONFIG[k].emergency_type)
                      /\ EQUIPMENT_CONFIG[k].emergency_type = "communication_failure"
                            => entries[i].emergency_checklist = StandardProcedures
                      /\ EQUIPMENT_CONFIG[k].emergency_type # "communication_failure"
                            => Len(entries[i].emergency_checklist) = 6
            /\ \A i, j \in 1..Len(entries) :
                  i < j => Position(missing[i].equipment) < Position(missing[j].equipment)

\* Some kinds are missing, a CRITICAL one among them, so the protocol starts with
\* the activation entry followed by the entries of the missing kinds.
C17_Witness ==
    /\ lastOp = "mission_entry"
    /\ Len(batch) = 2
    /\ Len(out.required_actions) = 6
    /\ out.required_actions[1].action = "EMERGENCY_RESPONSE_ACTIVATION"
    /\ out.required_actions[6].emergency_checklist = StandardProcedures

\* C18: check_alerts fires an active rule iff some detection of the batch has a
\* normalized label (lowercased, spaces replaced by underscores) equal, case
\* aside, to the rule's target label and a confidence >= the rule's minimum.
C18_RuleFiresOnNormalizedLabel ==
    lastOp = "check_alerts" =>
        \A r \in 1..Len(alerts) :
            alerts[r].active =>
                ((\E j \in 1..Len(out) : out[j].alert_id = alerts[r].id)
                 <=> (\E i \in 1..Len(batch) :
                        /\ lower_label(normalize_label(batch[i].label))
                              = lower_label(alerts[r].label)
                        /\ RGe(batch[i].confidence, alerts[r].min_confidence)))

C20_SafetyReport ==
    (lastOp = "safety_report" /\ logs # <<>>) =>
        LET h == SelectSeq(logs, LAMBDA log : log.label # "no_detection")
            from == IF Len(h) > 50 THEN Len(h) - 49 ELSE 1
            size == IF Len(h) > 50 THEN 50 ELSE Len(h)
            count(k) == Cardinality({i \in from..Len(h) : normalize_label(h[i].label) = k})
            report == out.safety_report
            st(k) == report.equipment_status[k]
            critical == {k \in ConfigKinds : st(k).status = "CRITICAL"}
            concerning == {k \in ConfigKinds : st(k).status = "CONCERNING"}
        IN  /\ \A k \in ConfigKinds :
                  /\ st(k).detection_rate = IF h = <<>> THEN RInt(0) ELSE R(count(k), size)
                  /\ st(k).status = "AVAILABLE" <=> 10 * count(k) > 8 * size
                  /\ st(k).status = "CONCERNING"
                        <=> (10 * count(k) <= 8 * size /\ 10 * count(k) > 5 * size)
                  /\ st(k).status = "CRITICAL" <=> 10 * count(k) <= 5 * size
            /\ report.overall_safety_score
                  = 100 - 20 * Cardinality(critical) - 10 * Cardinality(concerning)
            /\ h = <<>> => report.overall_safety_score = -40
            /\ Cardinality(critical) = 7 => report.overall_safety_score = -40

\* More than 50 detections are logged and a kind that fills four fifths of the
\* window is CONCERNING.
C20_Witness ==
    /\ lastOp = "safety_report"
    /\ Len(logs) = 51
    /\ logs[1].label = "fire_extinguisher"
    /\ out.safety_report.equipment_status["oxygen_tank"].detection_rate = R(4, 5)
    /\ out.safety_report.equipment_status["oxygen_tank"].status = "CONCERNING"
    /\ out.safety_report.overall_safety_score = -30

\* How many entries among the last 50 of the history hold a detection of kind k,
\* and how many entries that window has.
SeenIn(history, k) ==
    Cardinality({i \in 1..Len(history) :
                    /\ i > Len(history) - 50
                    /\ \E j \in 1..Len(history[i].detections) :
                          normalize_label(history[i].detections[j].label) = k})

WindowOf(history) == IF Len(history) > 50 THEN 50 ELSE Len(history)

\* C21: the recommendations of every crew safety report end with exactly one
\* ROUTINE inventory entry; an IMMEDIATE entry naming all CRITICAL kinds (those
\* with detection rate at most 0.5) comes before it, exactly once, iff at least
\* one kind is CRITICAL; when every catalog kind has detection rate 1.0 the score
\* is 100 and the routine entry is the only one.
C21_Recommendations ==
    lastOp = "crew_safety_report" =>
        LET recs == out.recommendations
            critical == {k \in ConfigKinds :
                            10 * SeenIn(reportHistory, k) <= 5 * WindowOf(reportHistory)}
            routine == {i \in 1..Len(recs) : recs[i].priority = "ROUTINE"}
            immediate == {i \in 1..Len(recs) : recs[i].priority = "IMMEDIATE"}
        IN  /\ Len(recs) >= 1
            /\ routine = {Len(recs)}
            /\ recs[Len(recs)] = RoutineInventory
            /\ immediate \cup routine = 1..Len(recs)
            /\ critical # {} <=> immediate = {1}
            /\ critical = {} <=> immediate = {}
            /\ critical # {} =>
                  /\ recs[1].action[1] = "Locate and verify: "
                  /\ SeqToSet(recs[1].action[2]) = critical
                  /\ Len(recs[1].action[2]) = Cardinality(critical)
            /\ (reportHistory # <<>>
                /\ \A k \in ConfigKinds :
                      SeenIn(reportHistory, k) = WindowOf(reportHistory))
                  => (out.overall_safety_score = 100 /\ recs = <<RoutineInventory>>)

\* Every image of the history shows all seven kinds: rate 1.0 throughout.
C21_Witness ==
    /\ lastOp = "crew_safety_report"
    /\ Len(reportHistory) = 3
    /\ \A k \in ConfigKinds : out.equipment_status[k].detection_rate = RInt(1)
    /\ out.overall_safety_score = 100
    /\ out.recommendations = <<RoutineInventory>>

InsideImage(in) ==
    /\ ValidGeometry(in)
    /\ in.detection.bbox[3] > 0
    /\ in.detection.bbox[4] > 0
    /\ in.detection.bbox[1] + in.detection.bbox[3] <= in.image_dimensions[1]
    /\ in.detection.bbox[2] + in.detection.bbox[4] <= in.image_dimensions[2]

\* C23, as stated: for a valid bbox and positive image dimensions the 'too close
\* to edge' recommendation appears whenever edge_distance < 0.2.
C23_EdgeRecommendationWhenever ==
    (posOut # NoResult /\ InsideImage(posIn)) =>
        (RLt(posOut.accessibility.edge_distance, R(2, 10))
            => \E i \in 1..Len(posOut.recommendations) :
                  posOut.recommendations[i] = TooCloseToEdge)

\* C23, amended: for a valid bbox and positive image dimensions the 'too close
\* to edge' recommendation appears exactly when placement_score < 0.7 and
\* edge_distance < 0.2, where edge_distance is min(center_x, 1 - center_x,
\* center_y, 1 - center_y); it does for confidence 0.85 and a box with center
\* (0.125, 0.125) and relative size 0.0025.
C23_EdgeRecommendation ==
    (posOut # NoResult /\ ValidGeometry(posIn)) =>
        LET x == posIn.detection.bbox[1]
            y == posIn.detection.bbox[2]
            w == posIn.detection.bbox[3]
            h == posIn.detection.bbox[4]
            center_x == R(2 * x + w, 2 * posIn.image_dimensions[1])
            center_y == R(2 * y + h, 2 * posIn.image_dimensions[2])
            edge_distance == RMin(RMin(center_x, RSub(RInt(1), center_x)),
                                  RMin(center_y, RSub(RInt(1), center_y)))
            advised == \E i \in 1..Len(posOut.recommendations) :
                          posOut.recommendations[i] = TooCloseToEdge
        IN  /\ posOut.outcome = "ok"
            /\ posOut.accessibility.edge_distance = edge_distance
            /\ advised <=> (RLt(posOut.placement_score, R(7, 10))
                            /\ RLt(edge_distance, R(2, 10)))
            /\ (center_x = R(1, 8) /\ center_y = R(1, 8)
                /\ posIn.detection.confidence = R(85, 100)
                /\ R(w * h, posIn.image_dimensions[1] * posIn.image_dimensions[2]) = R(1, 400))
                  => (advised /\ RLt(posOut.placement_score, R(7, 10)))

\* The scenario of the specification, at one fiftieth of its scale.
C23_Witness ==
    /\ posOut # NoResult
    /\ posIn.detection = [label |-> "fire_extinguisher", confidence |-> R(85, 100),
                          bbox |-> <<2, 2, 1, 1>>]
    /\ posIn.image_dimensions = <<20, 20>>
    /\ posOut.accessibility.edge_distance = R(1, 8)
    /\ RLt(posOut.placement_score, R(7, 10))
    /\ \E i \in 1..Len(posOut.recommendations) : posOut.recommendations[i] = TooCloseToEdge

\* What a state file holds for a kind: nothing, or one record or list.
Persisted(file, k) ==
    IF file.state = "ok" /\ k \in DOMAIN file.data THEN <<file.data[k]>> ELSE <<>>

InMemory(f, k) == IF k \in DOMAIN f THEN <<f[k]>> ELSE <<>>

\* The kind of the call that has just completed: the one whose entry was appended.
Updated(k) ==
    /\ calls' = calls + 1
    /\ lastOp' = "update_ok"
    /\ EntriesOf(appended', k) # EntriesOf(appended, k)

\* C24: a completed update_equipment_detection for a kind writes the kind's
\* record anew from the detection (status, tier, confidence, last_seen, image
\* path, placement score) with detection_count one more than before, 1 for a
\* kind not seen before; and over any sequence of updates and restarts no kind's
\* detection_count ever decreases.
C24_CountGrowsAndNeverShrinks ==
    [][/\ \A k \in RunLabels :
             Updated(k) =>
                LET e == appended'[k][Len(appended'[k])]
                    r == equipment_status'[k]
                IN  /\ r.confidence = e.confidence
                    /\ r.confidence_level = confidence_level_of(e.confidence)
                    /\ r.placement_score = placement_score_of(e.analysis)
                    /\ r.status = status_of(r.confidence_level, r.placement_score)
                    /\ r.last_seen = now'
                    /\ r.last_image = e.image_path
                    /\ r.detection_count = detection_count_of(equipment_status, k) + 1
       /\ \A k \in RunLabels :
             detection_count_of(equipment_status', k)
                >= detection_count_of(equipment_status, k)]_vars

\* C25: a completed update for one kind leaves every other kind's record and
\* history as they were, in memory and in the two files.
C25_OtherKindsUntouched ==
    [][\A a, b \in RunLabels :
          (a # b /\ Updated(a)) =>
              /\ InMemory(equipment_status', b) = InMemory(equipment_status, b)
              /\ InMemory(detection_history'.d, b) = InMemory(detection_history.d, b)
              /\ Persisted(status_file', b) = Persisted(status_file, b)
              /\ Persisted(history_file', b) = Persisted(history_file, b)]_vars

\* C26: get_equipment_status_summary and get_equipment_trends leave the records,
\* the histories, the set of kinds with a history key and the files as they
\* were; these change only in update_equipment_detection and when the dashboard
\* is constructed anew.
C26_ReadsChangeNothing ==
    [][/\ lastOp' \in {"summary", "trends"} =>
             UNCHANGED <<equipment_status, detection_history, status_file, history_file>>
       /\ (equipment_status' # equipment_status \/ detection_history' # detection_history)
             => (lastOp' = "construct" \/ calls' = calls + 1)]_vars

\* Trends were asked of a new dashboard for a kind it has no history of, while
\* it has a history of another kind.
C26_Witness ==
    /\ lastOp = "trends"
    /\ ret.trends = NoHistoryFound("oxygen_tank")
    /\ detection_history.dflt
    /\ DOMAIN detection_history.d = {"fire_extinguisher"}
    /\ Len(detection_history.d["fire_extinguisher"]) = 2

\* C27: in every reachable state each kind with a record has a non-empty history
\* whose last entry has the record's last_seen and confidence, each kind with a
\* history has a record, and detection_count is at least the history's length,
\* and equal to it while fewer than 100 updates were made.
C27_RecordsAndHistoriesAgree ==
    /\ \A k \in DOMAIN equipment_status :
          /\ k \in DOMAIN detection_history.d
          /\ detection_history.d[k] # <<>>
          /\ LET h == detection_history.d[k]
                 r == equipment_status[k]
             IN  /\ h[Len(h)].timestamp = r.last_seen
                 /\ h[Len(h)].confidence = r.confidence
                 /\ r.detection_count >= Len(h)
                 /\ calls < max_history_per_equipment => r.detection_count = Len(h)
    /\ \A k \in DOMAIN detection_history.d : k \in DOMAIN equipment_status

\* The record's tier is the tier of its confidence, and its status follows from
\* the tier and the placement score, and is never MISSING.
ConsistentRecord(r) ==
    LET c == r.confidence
        good == r.placement_score[1] * 10 > 7 * r.placement_score[2]
    IN  /\ r.confidence_level =
              (IF c[1] * 10 >= 8 * c[2] THEN "HIGH"
               ELSE IF c[1] * 10 >= 6 * c[2] THEN "MEDIUM"
               ELSE IF c[1] * 10 >= 5 * c[2] THEN "LOW"
               ELSE "UNCERTAIN")
        /\ r.status = "AVAILABLE" <=> (r.confidence_level = "HIGH" /\ good)
        /\ r.status = "CRITICAL" <=> (r.confidence_level = "UNCERTAIN" /\ good)
        /\ r.status \in {"AVAILABLE", "NEEDS_REVIEW", "CRITICAL"}

Alerted(summary) ==
    {summary.critical_alerts[i].equipment : i \in 1..Len(summary.critical_alerts)}

\* C28, as stated: every record is consistent, no kind with status AVAILABLE is
\* in the summary's critical_alerts, and every kind with status CRITICAL is.
C28_CriticalAlwaysAlerted ==
    /\ \A k \in DOMAIN equipment_status : ConsistentRecord(equipment_status[k])
    /\ lastOp = "summary" =>
          \A k \in DOMAIN equipment_status :
              /\ equipment_status[k].status = "AVAILABLE" => k \notin Alerted(ret)
              /\ equipment_status[k].status = "CRITICAL" => k \in Alerted(ret)

\* C28, amended: every record written by update_equipment_detection has the tier
\* of its confidence, status AVAILABLE iff the tier is HIGH and placement_score >
\* 0.7, CRITICAL iff the tier is UNCERTAIN and placement_score > 0.7, and never
\* MISSING; the summary's critical_alerts are the catalog kinds with confidence <
\* 0.6, so no kind with status AVAILABLE is among them and every catalog kind
\* with status CRITICAL is; a kind outside the catalog is never among them.
C28_ConsistentRecords ==
    /\ \A k \in DOMAIN equipment_status : ConsistentRecord(equipment_status[k])
    /\ lastOp = "summary" =>
          /\ Alerted(ret) = {k \in Catalog \cap DOMAIN equipment_status :
                                equipment_status[k].confidence[1] * 10
                                   < 6 * equipment_status[k].confidence[2]}
          /\ Len(ret.critical_alerts) = Cardinality(Alerted(ret))
          /\ \A k \in DOMAIN equipment_status :
                /\ equipment_status[k].status = "AVAILABLE" => k \notin Alerted(ret)
                /\ (equipment_status[k].status = "CRITICAL" /\ k \in Catalog)
                      => k \in Alerted(ret)
                /\ k \notin Catalog => k \notin Alerted(ret)

\* A catalog kind with status CRITICAL is in the summary's critical_alerts.
C28_Witness ==
    /\ lastOp = "summary"
    /\ "oxygen_tank" \in DOMAIN equipment_status
    /\ equipment_status["oxygen_tank"].status = "CRITICAL"
    /\ equipment_status["oxygen_tank"].confidence = R(49, 100)
    /\ Alerted(ret) = {"oxygen_tank"}

\* C29: once a detection whose normalized label is a catalog kind has been
\* recorded, the summary does not report that kind as never detected and has
\* its details under the catalog kind's name, whatever the case and spacing of
\* the label given to update_equipment_detection; and detected_equipment_types
\* is at most total_equipment_types.
C29_RecordedKindIsCounted ==
    lastOp = "summary" =>
        /\ \A raw \in DOMAIN equipment_status :
              normalize_label(raw) \in Catalog =>
                  /\ \A i \in 1..Len(ret.missing_equipment) :
                        ~ /\ ret.missing_equipment[i].equipment = normalize_label(raw)
                          /\ ret.missing_equipment[i].last_seen = NeverDetected
                  /\ normalize_label(raw) \in DOMAIN ret.equipment_details
        /\ ret.detected_equipment_types <= ret.total_equipment_types

====
